---------------------------- MODULE Spec2Model ----------------------------
(***************************************************************************)
(* Model of the PLC data bridge (plc-hmi/src-tauri):                       *)
(*   - TcpServer: acceptor, per-connection reader tasks, watchdog and the  *)
(*     administrative operations (tcp_server.rs),                          *)
(*   - handle_client_connection: accumulation and framing of one socket    *)
(*     (tcp_server.rs) with the schema-driven parser (plc_parser.rs),      *)
(*   - SmartCache: update_from_tcp and get_tags_for_broadcast, and the     *)
(*     harvester tasks that call it (websocket_server.rs),                 *)
(*   - WebSocketServer: life cycle, acceptors, client tasks, cache         *)
(*     processors and broadcast (websocket_server.rs),                     *)
(*   - the stored schema of a PLC (commands.rs, database.rs).              *)
(* The specifications share the variables: SpecTcp, SpecTcpRestart,        *)
(* SpecLocks, SpecReader, SpecReaderFull, SpecCache, SpecHarvest,          *)
(* SpecHarvestFair, SpecBroadcastCall, SpecLimitsCall, SpecWs,             *)
(* SpecClients, SpecParser, SpecParserShort, SpecUpdateCall, SpecProcessor *)
(* and SpecAdmin; each leaves the other components in their initial state. *)
(***************************************************************************)
EXTENDS Integers, Sequences, FiniteSets, TLC

VARIABLES
    \* ---- TcpServer (tcp_server.rs:135-153) ----
    is_running,          \* AtomicBool
    active_connections,  \* AtomicU64, kept as the signed representative of
                         \* its residue mod 2^64 (-1 stands for 2^64 - 1)
    connected_clients,   \* Vec<String>
    connection_handles,  \* HashMap ip -> AbortHandle (task index, 0 = absent)
    unique_plcs,         \* HashSet<String>
    blacklisted_ips,     \* HashSet<String>
    ip_to_id,            \* HashMap ip -> id (0 = absent)
    connection_health,   \* DashMap ip -> ConnectionHealth (NoHealth = absent)
    next_id,             \* local of the acceptor task
    acceptor,            \* the acceptor task: its position and locals
    watchdog,            \* the watchdog task: its position and locals
    tasks,               \* every reader task spawned so far
    admin,               \* a disconnect_client call in progress
    first_id,            \* history: id given to an ip on its first accept
    server_state,        \* TcpServerState (commands.rs:25) around this server
    \* ---- handle_client_connection (tcp_server.rs:674-957) ----
    rd,                  \* locals of one reader and what it has produced
    \* ---- SmartCache (websocket_server.rs:107-408) ----
    tag_cache,           \* DashMap key -> CachedTagValue (NoEntry = absent)
    change_tracking,     \* DashMap key -> last value (NoValue = absent)
    now,                 \* wall clock, whole seconds
    emitted,             \* history: the emissions of every tag
    fresh,               \* history: the values the updater resolved for a
                         \* change tag since the tag was last emitted
    \* ---- WebSocketServer (websocket_server.rs:142-162) ----
    hv,                  \* the harvester tasks: the call each is in
    ws_state,            \* WebSocketServerState (commands.rs:27)
    ws_is_running,       \* AtomicBool
    ws_connected_clients,\* DashMap id -> ConnectedClient (absent: NoClient)
    ws_active_connections, \* AtomicU64, signed representative as above
    total_connections,   \* AtomicU64
    server_tasks,        \* the acceptor task of every bound listener
    client_tasks,        \* every handle_client task spawned so far
    consumers,           \* every cache processor spawned so far, with the
                         \* channel its event listener feeds
    ws_harvesters,       \* the harvester tasks that are alive
    sockets,             \* history: sockets that have arrived
    published,           \* history: the frames published, in order
    applied,             \* history: the updates applied, in order
    after_stop,          \* history: what happened after stop() returned
    \* ---- Database (database.rs) ----
    plc_structure,       \* the stored PlcStructureConfig of the reader's PLC
    \* ---- PlcParser (plc_parser.rs) ----
    parse_call,          \* one parse_with_config call: arguments and result
    \* ---- SmartCache::update_from_tcp as a function ----
    update_call,         \* one update of one tag: arguments and the entry
    \* ---- the atomic cache processor (websocket_server.rs:783-829) ----
    processor,           \* the task: its position and locals
    tag_mappings_cache,  \* DashMap plc -> Vec<TagMapping> (NoTags = absent),
                         \* indexed by the number of the PLC
    last_cleanup,        \* seconds since SmartCache::last_cleanup
    tag_db,              \* the tag_mappings rows of every PLC
    \* ---- the commands (commands.rs) ----
    last_call,           \* history: the last command followed and its result
    \* ---- the locks of TcpServer, as its operations take them ----
    lock_owner,          \* the writer of connected_clients and of
                         \* connection_handles
    lock_procs,          \* the operations: where each stands
    handle_keys,         \* the keys of connection_handles
    broadcast_call,      \* calls of get_tags_for_broadcast on a cache of two
                         \* PLCs: the rows, the cache and the last result
    limits_call          \* one call of enforce_memory_limits: the sizes

tcpVars == <<is_running, active_connections, connected_clients,
             connection_handles, unique_plcs, blacklisted_ips, ip_to_id,
             connection_health, next_id, acceptor, watchdog, tasks, admin,
             first_id, server_state>>
cacheVars == <<tag_cache, change_tracking, now, emitted, fresh>>
lifeVars == <<ws_state, ws_is_running>>
acceptVars == <<server_tasks, sockets, total_connections>>
clientVars == <<client_tasks, ws_connected_clients, ws_active_connections>>
feedVars == <<consumers, published, applied>>
srvVars == <<lifeVars, acceptVars, clientVars, feedVars, ws_harvesters,
             after_stop>>
wsVars == <<hv, srvVars>>
dbVars == <<plc_structure>>
callVars == <<parse_call, update_call, broadcast_call, limits_call>>
procVars == <<processor, tag_mappings_cache, last_cleanup, tag_db>>
adminVars == <<last_call>>
lockVars == <<lock_owner, lock_procs, handle_keys>>
vars == <<tcpVars, rd, cacheVars, wsVars, dbVars, callVars, procVars, adminVars, lockVars>>

-----------------------------------------------------------------------------
(* Bounds of the model *)

\* reader tasks spawned in one behaviour
MaxAccepts == 2
\* seconds that pass in one step of the TCP model's clock
TickSecs == 31

\* blocks of a schema handed to the parser
MaxBlocks == 2
\* elements of one block
MaxCount == 2

\* PLC identities (peer addresses)
IPs == {"A1", "A2"}

Min(a, b) == IF a < b THEN a ELSE b

\* sequences over S of length n
RECURSIVE SeqsOfLen(_, _)
SeqsOfLen(S, n) ==
    IF n = 0 THEN {<<>>}
    ELSE {Append(q, x) : q \in SeqsOfLen(S, n - 1), x \in S}

-----------------------------------------------------------------------------
(* TcpServer *)

INACTIVITY_TIMEOUT_SECS == 30

NoHealth == [present |-> FALSE]

\* ConnectionHealth; idle = whole seconds since last_data_received, saturated
\* one above the timeout; task = the reader the entry was created for
Health(id, t) == [present |-> TRUE, conn_id |-> id, task |-> t, idle |-> 0]

NoAcceptor == [pc |-> "none", ip |-> "", task |-> 0, cancelled |-> FALSE]
NoWatchdog == [pc |-> "none", dead |-> <<>>, cancelled |-> FALSE]
NoAdmin == [pc |-> "idle", ip |-> "", was_blacklisted |-> FALSE]

\* clients.retain(|client_ip| client_ip != ip)
Retain(clients, ip) == SelectSeq(clients, LAMBDA c : c # ip)

\* AbortHandle::abort on reader t (0 = no handle). A reader suspended in its
\* socket read is dropped there; one that is running its Cleanup block is
\* cancelled and stops at its next suspension, if it reaches one
Abort(ts, t) ==
    IF t = 0 THEN ts
    ELSE IF ts[t].pc = "reading" THEN [ts EXCEPT ![t].pc = "aborted"]
    ELSE IF ts[t].pc = "returned" THEN [ts EXCEPT ![t].cancelled = TRUE]
    ELSE ts

Live(t) == tasks[t].pc \in {"reading", "returned"} /\ ~tasks[t].cancelled

\* JoinHandle::abort on the acceptor: dropped where it is suspended (accept,
\* sleep), cancelled while it is registering a connection
AbortAcceptor(a) ==
    IF a.pc \in {"none", "accept", "sleep"} THEN NoAcceptor
    ELSE [a EXCEPT !.cancelled = TRUE]

\* JoinHandle::abort on the watchdog: dropped in interval.tick(), cancelled
\* inside its kill loop
AbortWatchdog(w) ==
    IF w.pc \in {"none", "tick"} THEN NoWatchdog
    ELSE [w EXCEPT !.cancelled = TRUE]

InitTcp ==
    /\ is_running = FALSE
    /\ active_connections = 0
    /\ connected_clients = <<>>
    /\ connection_handles = [ip \in IPs |-> 0]
    /\ unique_plcs = {}
    /\ blacklisted_ips = {}
    /\ ip_to_id = [ip \in IPs |-> 0]
    /\ connection_health = [ip \in IPs |-> NoHealth]
    /\ next_id = 1
    /\ acceptor = NoAcceptor
    /\ watchdog = NoWatchdog
    /\ tasks = <<>>
    /\ admin = NoAdmin
    /\ first_id = [ip \in IPs |-> 0]
    /\ server_state = "new"

NoCall == [op |-> "none"]

\* a start that fails only when the server is running already
StartFailsIfRunning(already_running, none_bound) == already_running

\* Err of start_server and of WebSocketServer::start: the server is running
\* already, or no address could be bound
StartFails(already_running, none_bound) == already_running \/ none_bound

\* start_server after its two early returns: the flag, the watchdog and the
\* acceptor
StartServerOk ==
    /\ server_state = "new"
    /\ ~is_running
    /\ server_state' = "some"
    /\ is_running' = TRUE
    /\ watchdog' = [NoWatchdog EXCEPT !.pc = "tick"]
    /\ acceptor' = [NoAcceptor EXCEPT !.pc = "accept"]
    /\ next_id' = 1
    /\ UNCHANGED <<rd, cacheVars, wsVars, dbVars, callVars, procVars, lockVars>>
    /\ UNCHANGED <<active_connections, connected_clients, connection_handles,
                   unique_plcs, blacklisted_ips, ip_to_id, connection_health,
                   tasks, admin, first_id>>

\* start_server called again on the TcpServer that stop_server stopped, once
\* the tasks of the earlier run are gone: the maps of the TcpServer are kept,
\* the new acceptor starts with `let mut next_id = 1u64`
StartServerAgain ==
    /\ server_state = "stopped"
    /\ ~is_running
    /\ acceptor = NoAcceptor /\ watchdog = NoWatchdog
    /\ server_state' = "some"
    /\ is_running' = TRUE
    /\ watchdog' = [NoWatchdog EXCEPT !.pc = "tick"]
    /\ acceptor' = [NoAcceptor EXCEPT !.pc = "accept"]
    /\ next_id' = 1
    /\ UNCHANGED <<rd, cacheVars, wsVars, dbVars, callVars, procVars,
                   adminVars, lockVars>>
    /\ UNCHANGED <<active_connections, connected_clients, connection_handles,
                   unique_plcs, blacklisted_ips, ip_to_id, connection_health,
                   tasks, admin, first_id>>

\* start_tcp_server: a TcpServer is constructed, started once and stored
StartServer == StartServerOk /\ UNCHANGED adminVars

\* start_tcp_server with its result, whatever the state of the server and
\* the outcome of bind
StartTcpServer(bind_ok) ==
    /\ server_state \in {"new", "some"}
    /\ IF StartFails(server_state = "some" \/ is_running, ~bind_ok)
       THEN /\ last_call' = [op |-> "start_tcp_server", arg |-> bind_ok,
                             result |-> "Err"]
            /\ UNCHANGED <<tcpVars, rd, cacheVars, wsVars, dbVars, callVars,
                           procVars, lockVars>>
       ELSE /\ last_call' = [op |-> "start_tcp_server", arg |-> bind_ok,
                             result |-> "Ok"]
            /\ StartServerOk

RECURSIVE AbortAll(_, _)
AbortAll(ts, hs) ==
    IF hs = {} THEN ts
    ELSE LET h == CHOOSE x \in hs : TRUE IN AbortAll(Abort(ts, h), hs \ {h})

\* history: by_stop marks the connections that were open when stop_server ran
MarkStopped(before, after) ==
    [t \in DOMAIN before |->
        [ip |-> after[t].ip, conn_id |-> after[t].conn_id, pc |-> after[t].pc,
         cancelled |-> after[t].cancelled, decs |-> after[t].decs,
         by_stop |-> before[t].pc \in {"reading", "returned"}]]

\* stop_tcp_server: takes the write lock, so no disconnect_plc is in
\* progress; stop_server, then the server is dropped from the state
StopServer ==
    /\ server_state = "some"
    /\ admin.pc = "idle"
    /\ server_state' = "stopped"
    /\ is_running' = FALSE
    /\ watchdog' = AbortWatchdog(watchdog)
    /\ tasks' = MarkStopped(tasks,
                 AbortAll(tasks, {connection_handles[ip] : ip \in IPs} \ {0}))
    /\ connection_handles' = [ip \in IPs |-> 0]
    /\ connection_health' = [ip \in IPs |-> NoHealth]
    /\ acceptor' = AbortAcceptor(acceptor)
    /\ active_connections' = 0
    /\ connected_clients' = <<>>
    /\ UNCHANGED <<rd, cacheVars, wsVars, dbVars, callVars, procVars, adminVars, lockVars>>
    /\ UNCHANGED <<unique_plcs, blacklisted_ips, ip_to_id, next_id, admin,
                   first_id>>

\* a cancelled acceptor stops at the next suspension it reaches
AcceptorCancelled ==
    /\ acceptor.pc # "none" /\ acceptor.cancelled
    /\ acceptor' = NoAcceptor
    /\ UNCHANGED <<rd, cacheVars, wsVars, dbVars, callVars, procVars, adminVars, lockVars>>
    /\ UNCHANGED <<is_running, active_connections, connected_clients,
                   connection_handles, unique_plcs, blacklisted_ips, ip_to_id,
                   connection_health, next_id, watchdog, tasks, admin,
                   first_id, server_state>>

\* while is_running { accept(); blacklist check }
AcceptorAccept(ip) ==
    /\ acceptor.pc = "accept"
    /\ is_running
    /\ Len(tasks) < MaxAccepts
    /\ acceptor' = IF ip \in blacklisted_ips
                   THEN acceptor
                   ELSE [acceptor EXCEPT !.pc = "duplicate", !.ip = ip]
    /\ UNCHANGED <<rd, cacheVars, wsVars, dbVars, callVars, procVars, adminVars, lockVars>>
    /\ UNCHANGED <<is_running, active_connections, connected_clients,
                   connection_handles, unique_plcs, blacklisted_ips, ip_to_id,
                   connection_health, next_id, watchdog, tasks, admin,
                   first_id, server_state>>

\* duplicate connection: remove and abort the old handle, drop its health
\* record, sleep 100 ms
AcceptorDuplicate ==
    /\ acceptor.pc = "duplicate"
    /\ LET ip == acceptor.ip
           old == connection_handles[ip]
       IN IF old # 0
          THEN /\ connection_handles' = [connection_handles EXCEPT ![ip] = 0]
               /\ tasks' = Abort(tasks, old)
               /\ connection_health' = [connection_health EXCEPT ![ip] = NoHealth]
               /\ acceptor' = IF acceptor.cancelled THEN NoAcceptor
                              ELSE [acceptor EXCEPT !.pc = "sleep"]
          ELSE /\ acceptor' = [acceptor EXCEPT !.pc = "register"]
               /\ UNCHANGED <<connection_handles, tasks, connection_health>>
    /\ UNCHANGED <<rd, cacheVars, wsVars, dbVars, callVars, procVars, adminVars, lockVars>>
    /\ UNCHANGED <<is_running, active_connections, connected_clients,
                   unique_plcs, blacklisted_ips, ip_to_id, next_id, watchdog,
                   admin, first_id, server_state>>

\* the 100 ms sleep ends
AcceptorWake ==
    /\ acceptor.pc = "sleep"
    /\ acceptor' = [acceptor EXCEPT !.pc = "register"]
    /\ UNCHANGED <<rd, cacheVars, wsVars, dbVars, callVars, procVars, adminVars, lockVars>>
    /\ UNCHANGED <<is_running, active_connections, connected_clients,
                   connection_handles, unique_plcs, blacklisted_ips, ip_to_id,
                   connection_health, next_id, watchdog, tasks, admin,
                   first_id, server_state>>

\* an acceptor without the ip_to_id lookup: every accept takes the next id
FreshId(ip) == next_id

\* OBTER OU CRIAR ID
ResolveId(ip) == IF ip_to_id[ip] # 0 THEN ip_to_id[ip] ELSE next_id

\* id, unique_plcs, counter, connected list, health record, spawn the reader
AcceptorRegister ==
    /\ acceptor.pc = "register"
    /\ LET ip == acceptor.ip
           conn_id == ResolveId(ip)
           t == Len(tasks) + 1
       IN /\ ip_to_id' = [ip_to_id EXCEPT ![ip] = conn_id]
          /\ next_id' = IF ip_to_id[ip] # 0 THEN next_id ELSE next_id + 1
          /\ first_id' = IF first_id[ip] = 0
                         THEN [first_id EXCEPT ![ip] = conn_id]
                         ELSE first_id
          /\ unique_plcs' = unique_plcs \cup {ip}
          /\ active_connections' = active_connections + 1
          /\ connected_clients' = Append(connected_clients, ip)
          /\ connection_health' = [connection_health EXCEPT ![ip] = Health(conn_id, t)]
          /\ tasks' = Append(tasks, [ip |-> ip, conn_id |-> conn_id,
                                     pc |-> "reading", cancelled |-> FALSE,
                                     decs |-> 0, by_stop |-> FALSE])
          /\ acceptor' = [acceptor EXCEPT !.pc = "insert", !.task = t]
    /\ UNCHANGED <<rd, cacheVars, wsVars, dbVars, callVars, procVars, adminVars, lockVars>>
    /\ UNCHANGED <<is_running, connection_handles, blacklisted_ips, watchdog,
                   admin, server_state>>

\* connection_handles.insert(ip, abort_handle)
AcceptorInsert ==
    /\ acceptor.pc = "insert"
    /\ connection_handles' = [connection_handles EXCEPT ![acceptor.ip] = acceptor.task]
    /\ acceptor' = IF acceptor.cancelled THEN NoAcceptor
                   ELSE [NoAcceptor EXCEPT !.pc = "accept"]
    /\ UNCHANGED <<rd, cacheVars, wsVars, dbVars, callVars, procVars, adminVars, lockVars>>
    /\ UNCHANGED <<is_running, active_connections, connected_clients,
                   unique_plcs, blacklisted_ips, ip_to_id, connection_health,
                   next_id, watchdog, tasks, admin, first_id, server_state>>

\* a reader cancelled in its Cleanup block stops at a lock it has to wait
\* for, without running the rest of the block
ReaderCancelled(t) ==
    /\ tasks[t].pc = "returned" /\ tasks[t].cancelled
    /\ tasks' = [tasks EXCEPT ![t].pc = "aborted", ![t].cancelled = FALSE]
    /\ UNCHANGED <<rd, cacheVars, wsVars, dbVars, callVars, procVars, adminVars, lockVars>>
    /\ UNCHANGED <<is_running, active_connections, connected_clients,
                   connection_handles, unique_plcs, blacklisted_ips, ip_to_id,
                   connection_health, next_id, acceptor, watchdog, admin,
                   first_id, server_state>>

\* Ok(Ok(n)), n > 0: connection_health.get_mut(&ip) -> last_data_received = now
ReaderData(t) ==
    /\ tasks[t].pc = "reading"
    /\ connection_health[tasks[t].ip].present
    /\ connection_health[tasks[t].ip].idle # 0
    /\ connection_health' = [connection_health EXCEPT ![tasks[t].ip].idle = 0]
    /\ UNCHANGED <<rd, cacheVars, wsVars, dbVars, callVars, procVars, adminVars, lockVars>>
    /\ UNCHANGED <<is_running, active_connections, connected_clients,
                   connection_handles, unique_plcs, blacklisted_ips, ip_to_id,
                   next_id, acceptor, watchdog, tasks, admin, first_id, server_state>>

\* handle_client_connection returns: Normal (peer closed), Timeout, Error,
\* or ServerStopped once is_running is false
ReaderReturn(t) ==
    /\ tasks[t].pc = "reading"
    /\ tasks' = [tasks EXCEPT ![t].pc = "returned"]
    /\ UNCHANGED <<rd, cacheVars, wsVars, dbVars, callVars, procVars, adminVars, lockVars>>
    /\ UNCHANGED <<is_running, active_connections, connected_clients,
                   connection_handles, unique_plcs, blacklisted_ips, ip_to_id,
                   connection_health, next_id, acceptor, watchdog, admin,
                   first_id, server_state>>

\* the Cleanup block of the spawned task
ReaderCleanup(t) ==
    /\ tasks[t].pc = "returned"
    /\ LET ip == tasks[t].ip
       IN /\ connected_clients' = Retain(connected_clients, ip)
          /\ connection_handles' = [connection_handles EXCEPT ![ip] = 0]
          /\ connection_health' = [connection_health EXCEPT ![ip] = NoHealth]
          /\ active_connections' = active_connections - 1
          /\ tasks' = [tasks EXCEPT ![t].pc = "done", ![t].cancelled = FALSE,
                                    ![t].decs = Min(@ + 1, 2)]
    /\ UNCHANGED <<rd, cacheVars, wsVars, dbVars, callVars, procVars, adminVars, lockVars>>
    /\ UNCHANGED <<is_running, unique_plcs, blacklisted_ips, ip_to_id, next_id,
                   acceptor, watchdog, admin, first_id, server_state>>

\* every task waits where time passes: accept, sleep, interval.tick, the
\* socket read; the steps in between take no time on the scale of TickSecs
Waiting ==
    /\ acceptor.pc \in {"none", "accept", "sleep"}
    /\ watchdog.pc \in {"none", "tick"}
    /\ admin.pc = "idle"
    /\ \A t \in DOMAIN tasks : tasks[t].pc # "returned"

\* TickSecs seconds pass without data on any connection
Tick ==
    /\ Waiting
    /\ \E ip \in IPs : /\ connection_health[ip].present
                       /\ connection_health[ip].idle <= INACTIVITY_TIMEOUT_SECS
    /\ connection_health' =
          [ip \in IPs |->
              IF connection_health[ip].present
              THEN [connection_health[ip] EXCEPT
                       !.idle = Min(@ + TickSecs, INACTIVITY_TIMEOUT_SECS + 1)]
              ELSE connection_health[ip]]
    /\ UNCHANGED <<rd, cacheVars, wsVars, dbVars, callVars, procVars, adminVars, lockVars>>
    /\ UNCHANGED <<is_running, active_connections, connected_clients,
                   connection_handles, unique_plcs, blacklisted_ips, ip_to_id,
                   next_id, acceptor, watchdog, tasks, admin, first_id, server_state>>

WatchdogCancelled ==
    /\ watchdog.pc # "none" /\ watchdog.cancelled
    /\ watchdog' = NoWatchdog
    /\ UNCHANGED <<rd, cacheVars, wsVars, dbVars, callVars, procVars, adminVars, lockVars>>
    /\ UNCHANGED <<is_running, active_connections, connected_clients,
                   connection_handles, unique_plcs, blacklisted_ips, ip_to_id,
                   connection_health, next_id, acceptor, tasks, admin,
                   first_id, server_state>>

\* an enumeration of a set as a sequence (DashMap iteration order is arbitrary)
RECURSIVE SetToSeq(_)
SetToSeq(S) ==
    IF S = {} THEN <<>>
    ELSE LET x == CHOOSE y \in S : TRUE IN <<x>> \o SetToSeq(S \ {x})

DeadConnections ==
    {ip \in IPs : /\ connection_health[ip].present
                  /\ connection_health[ip].idle > INACTIVITY_TIMEOUT_SECS}

\* one tick of the watchdog: collect the connections without data for more
\* than INACTIVITY_TIMEOUT_SECS
WatchdogScan ==
    /\ watchdog.pc = "tick"
    /\ is_running
    /\ DeadConnections # {}
    /\ watchdog' = [watchdog EXCEPT
                       !.pc = "kill",
                       !.dead = SetToSeq({<<ip, connection_health[ip].task>> :
                                            ip \in DeadConnections})]
    /\ UNCHANGED <<rd, cacheVars, wsVars, dbVars, callVars, procVars, adminVars, lockVars>>
    /\ UNCHANGED <<is_running, active_connections, connected_clients,
                   connection_handles, unique_plcs, blacklisted_ips, ip_to_id,
                   connection_health, next_id, acceptor, tasks, admin,
                   first_id, server_state>>

\* "Matar conexões mortas": one iteration of the loop over dead_connections
WatchdogKill ==
    /\ watchdog.pc = "kill"
    /\ LET ip == Head(watchdog.dead)[1]
           seen == Head(watchdog.dead)[2]
           h == connection_handles[ip]
           victim == IF h # 0 THEN h ELSE seen
       IN /\ connection_handles' = [connection_handles EXCEPT ![ip] = 0]
          /\ connection_health' = [connection_health EXCEPT ![ip] = NoHealth]
          /\ connected_clients' = Retain(connected_clients, ip)
          /\ active_connections' = active_connections - 1
          /\ tasks' = [Abort(tasks, h) EXCEPT ![victim].decs = Min(@ + 1, 2)]
    /\ watchdog' = IF Len(watchdog.dead) > 1
                   THEN [watchdog EXCEPT !.dead = Tail(@)]
                   ELSE IF watchdog.cancelled THEN NoWatchdog
                   ELSE [NoWatchdog EXCEPT !.pc = "tick"]
    /\ UNCHANGED <<rd, cacheVars, wsVars, dbVars, callVars, procVars, adminVars, lockVars>>
    /\ UNCHANGED <<is_running, unique_plcs, blacklisted_ips, ip_to_id, next_id,
                   acceptor, admin, first_id, server_state>>

\* disconnect_client, first statement: blacklisted_ips.insert(client_ip)
DisconnectBlacklist(ip) ==
    /\ server_state = "some"
    /\ admin.pc = "idle"
    /\ blacklisted_ips' = blacklisted_ips \cup {ip}
    /\ admin' = [pc |-> "teardown", ip |-> ip,
                 was_blacklisted |-> ip \in blacklisted_ips]
    /\ UNCHANGED <<rd, cacheVars, wsVars, dbVars, callVars, procVars, adminVars, lockVars>>
    /\ UNCHANGED <<is_running, active_connections, connected_clients,
                   connection_handles, unique_plcs, ip_to_id,
                   connection_health, next_id, acceptor, watchdog, tasks,
                   first_id, server_state>>

\* disconnect_client, under the connection_handles write lock: remove and
\* abort the handle, tear the bookkeeping down; Err when there is no handle
DisconnectTeardown ==
    /\ admin.pc = "teardown"
    /\ LET ip == admin.ip
           h == connection_handles[ip]
       IN IF h # 0
          THEN /\ connection_handles' = [connection_handles EXCEPT ![ip] = 0]
               /\ tasks' = [Abort(tasks, h) EXCEPT ![h].decs = Min(@ + 1, 2)]
               /\ connection_health' = [connection_health EXCEPT ![ip] = NoHealth]
               /\ connected_clients' = Retain(connected_clients, ip)
               /\ active_connections' = active_connections - 1
          ELSE UNCHANGED <<connection_handles, tasks, connection_health,
                           connected_clients, active_connections>>
    /\ admin' = NoAdmin
    /\ UNCHANGED <<rd, cacheVars, wsVars, dbVars, callVars, procVars, adminVars, lockVars>>
    /\ UNCHANGED <<is_running, unique_plcs, blacklisted_ips, ip_to_id, next_id,
                   acceptor, watchdog, first_id, server_state>>

\* a removal that empties the set
RemoveAll(set, ip) == {}

\* the set after HashSet::remove
RemoveIp(set, ip) == set \ {ip}

\* allow_reconnect when the ip is blacklisted
AllowReconnectOk(ip) ==
    /\ server_state = "some"
    /\ ip \in blacklisted_ips
    /\ blacklisted_ips' = RemoveIp(blacklisted_ips, ip)
    /\ UNCHANGED <<rd, cacheVars, wsVars, dbVars, callVars, procVars, lockVars>>
    /\ UNCHANGED <<is_running, active_connections, connected_clients,
                   connection_handles, unique_plcs, ip_to_id,
                   connection_health, next_id, acceptor, watchdog, tasks,
                   admin, first_id, server_state>>

\* allow_reconnect: Ok when the ip was blacklisted, Err (no change) otherwise
AllowReconnect(ip) == AllowReconnectOk(ip) /\ UNCHANGED adminVars

\* blacklisted_ips.remove(&client_ip)
Removed(ip) == ip \in blacklisted_ips

\* allow_plc_reconnect on a stored server, with its result
AllowPlcReconnect(ip) ==
    /\ server_state = "some"
    /\ IF Removed(ip)
       THEN /\ last_call' = [op |-> "allow_plc_reconnect", arg |-> ip,
                             result |-> "Ok"]
            /\ AllowReconnectOk(ip)
       ELSE /\ last_call' = [op |-> "allow_plc_reconnect", arg |-> ip,
                             result |-> "Err"]
            /\ UNCHANGED <<tcpVars, rd, cacheVars, wsVars, dbVars, callVars,
                           procVars, lockVars>>

NextTcp ==
    \/ StartServer
    \/ StopServer
    \/ AcceptorCancelled
    \/ \E ip \in IPs : AcceptorAccept(ip)
    \/ AcceptorDuplicate
    \/ AcceptorWake
    \/ AcceptorRegister
    \/ AcceptorInsert
    \/ \E t \in DOMAIN tasks : ReaderCancelled(t)
    \/ \E t \in DOMAIN tasks : ReaderData(t)
    \/ \E t \in DOMAIN tasks : ReaderReturn(t)
    \/ \E t \in DOMAIN tasks : ReaderCleanup(t)
    \/ Tick
    \/ WatchdogCancelled
    \/ WatchdogScan
    \/ WatchdogKill
    \/ \E ip \in IPs : DisconnectBlacklist(ip)
    \/ DisconnectTeardown
    \/ \E ip \in IPs : AllowReconnect(ip)

\* the methods of one TcpServer called in any order
NextTcpRestart ==
    \/ NextTcp
    \/ StartServerAgain

-----------------------------------------------------------------------------
(* The locks of TcpServer: connected_clients and connection_handles *)

\* the operations that take the two locks: the connection task of each PLC
\* (its exit cleanup), disconnect_client of each PLC, stop_server, the
\* watchdog and the acceptor
LockTasks == {<<"task", ip>> : ip \in IPs}
LockProcs == LockTasks \cup {<<"disconnect", ip>> : ip \in IPs}
                 \cup {<<"stop", "">>, <<"watchdog", "">>, <<"acceptor", "">>}
NoOwner == <<"free", "">>
NoLockProc == [pc |-> "none", ip |-> "", cancelled |-> FALSE, accepts |-> 0]

\* no server: nothing runs and nothing is locked
InitLocksOff ==
    /\ lock_owner = [l \in {"connected_clients", "connection_handles"} |->
                        NoOwner]
    /\ lock_procs = [p \in LockProcs |-> NoLockProc]
    /\ handle_keys = {}

\* start_server returned: the acceptor and the watchdog run, no PLC yet
InitLocks ==
    /\ lock_owner = [l \in {"connected_clients", "connection_handles"} |->
                        NoOwner]
    /\ lock_procs = [p \in LockProcs |->
                        CASE p = <<"acceptor", "">> ->
                                [NoLockProc EXCEPT !.pc = "accept"]
                          [] p = <<"watchdog", "">> ->
                                [NoLockProc EXCEPT !.pc = "tick"]
                          [] p[1] \in {"disconnect", "stop"} ->
                                [NoLockProc EXCEPT !.pc = "idle"]
                          [] OTHER -> NoLockProc]
    /\ handle_keys = {}

\* the operations below leave everything but the locks alone
OnlyLocks ==
    UNCHANGED <<tcpVars, rd, cacheVars, wsVars, dbVars, callVars, procVars,
                adminVars>>

\* write().await returns only when nobody holds the lock
Free(l) == lock_owner[l] = NoOwner

\* the guards p holds are dropped
Released(owner, p) ==
    [l \in DOMAIN owner |-> IF owner[l] = p THEN NoOwner ELSE owner[l]]

\* a connection task that runs, suspended at one of its awaits
TaskAlive(t) == t.pc \in {"reading", "want_clients", "want_handles"}

\* AbortHandle::abort of the connection tasks of ips: a task is cancelled
\* when it is polled next, a finished one is not touched
AbortTasks(procs, ips) ==
    [p \in DOMAIN procs |->
        IF p[1] = "task" /\ p[2] \in ips /\ TaskAlive(procs[p])
        THEN [procs[p] EXCEPT !.cancelled = TRUE]
        ELSE procs[p]]

\* JoinHandle::abort of the acceptor or of the watchdog
AbortProc(procs, p) ==
    IF procs[p].pc \in {"none", "aborted", "ended"} THEN procs
    ELSE [procs EXCEPT ![p].cancelled = TRUE]

\* `while is_running.load()` at the head of the loops of the acceptor and of
\* the watchdog: stop_server clears the flag first
LoopPc(pc) == IF lock_procs[<<"stop", "">>].pc = "idle" THEN pc ELSE "ended"

\* a cancelled task is dropped at its await: the guards it holds go with it
LockProcCancelled(p) ==
    /\ lock_procs[p].cancelled
    /\ lock_procs' = [lock_procs EXCEPT ![p] =
                          [@ EXCEPT !.pc = "aborted", !.cancelled = FALSE]]
    /\ lock_owner' = Released(lock_owner, p)
    /\ UNCHANGED handle_keys
    /\ OnlyLocks

\* handle_client_connection of the task of ip returns
TaskReturns(ip) ==
    LET p == <<"task", ip>> IN
    /\ lock_procs[p].pc = "reading" /\ ~lock_procs[p].cancelled
    /\ lock_procs' = [lock_procs EXCEPT ![p].pc = "want_clients"]
    /\ UNCHANGED <<lock_owner, handle_keys>>
    /\ OnlyLocks

\* cleanup: `let mut clients = connected_clients_clone.write().await`, a
\* guard that lives to the end of the task
TaskLocksClients(ip) ==
    LET p == <<"task", ip>> IN
    /\ lock_procs[p].pc = "want_clients" /\ ~lock_procs[p].cancelled
    /\ Free("connected_clients")
    /\ lock_owner' = [lock_owner EXCEPT !["connected_clients"] = p]
    /\ lock_procs' = [lock_procs EXCEPT ![p].pc = "want_handles"]
    /\ UNCHANGED handle_keys
    /\ OnlyLocks

\* cleanup: `let mut handles = connection_handles_clone.write().await`,
\* handles.remove, and the rest of the task, which waits for neither lock
TaskLocksHandles(ip) ==
    LET p == <<"task", ip>> IN
    /\ lock_procs[p].pc = "want_handles" /\ ~lock_procs[p].cancelled
    /\ Free("connection_handles")
    /\ handle_keys' = handle_keys \ {ip}
    /\ lock_owner' = Released(lock_owner, p)
    /\ lock_procs' = [lock_procs EXCEPT ![p].pc = "done"]
    /\ OnlyLocks

\* disconnect_client(ip) is called (disconnect_plc holds the read lock of the
\* server state, stop_tcp_server needs the write lock)
DisconnectClientCalled(ip) ==
    LET p == <<"disconnect", ip>> IN
    /\ lock_procs[p].pc = "idle"
    /\ lock_procs[<<"stop", "">>].pc = "idle"
    /\ lock_procs' = [lock_procs EXCEPT ![p].pc = "want_handles"]
    /\ UNCHANGED <<lock_owner, handle_keys>>
    /\ OnlyLocks

\* disconnect_client: `let mut handles = self.connection_handles.write()
\* .await`, a guard that lives to the end of the function; Err if ip has no
\* handle, else the task is aborted
DisconnectLocksHandles(ip) ==
    LET p == <<"disconnect", ip>> IN
    /\ lock_procs[p].pc = "want_handles"
    /\ Free("connection_handles")
    /\ IF ip \in handle_keys
       THEN /\ handle_keys' = handle_keys \ {ip}
            /\ lock_owner' = [lock_owner EXCEPT !["connection_handles"] = p]
            /\ lock_procs' = [AbortTasks(lock_procs, {ip}) EXCEPT
                                 ![p].pc = "want_clients"]
       ELSE /\ lock_procs' = [lock_procs EXCEPT ![p].pc = "done"]
            /\ UNCHANGED <<lock_owner, handle_keys>>
    /\ OnlyLocks

\* disconnect_client: `let mut clients = self.connected_clients.write()
\* .await` with the handles guard held, and the return
DisconnectLocksClients(ip) ==
    LET p == <<"disconnect", ip>> IN
    /\ lock_procs[p].pc = "want_clients"
    /\ Free("connected_clients")
    /\ lock_owner' = Released(lock_owner, p)
    /\ lock_procs' = [lock_procs EXCEPT ![p].pc = "done"]
    /\ UNCHANGED handle_keys
    /\ OnlyLocks

\* stop_server is called: the flag, the abort of the watchdog
StopServerCalled ==
    LET p == <<"stop", "">> IN
    /\ lock_procs[p].pc = "idle"
    /\ \A ip \in IPs : lock_procs[<<"disconnect", ip>>].pc \in {"idle", "done"}
    /\ lock_procs' = [AbortProc(lock_procs, <<"watchdog", "">>) EXCEPT
                         ![p].pc = "want_handles"]
    /\ UNCHANGED <<lock_owner, handle_keys>>
    /\ OnlyLocks

\* stop_server: `let mut handles = self.connection_handles.write().await`, a
\* guard that lives to the end of the function; every handle is drained and
\* aborted, then the acceptor
StopLocksHandles ==
    LET p == <<"stop", "">> IN
    /\ lock_procs[p].pc = "want_handles"
    /\ Free("connection_handles")
    /\ handle_keys' = {}
    /\ lock_owner' = [lock_owner EXCEPT !["connection_handles"] = p]
    /\ lock_procs' = [AbortProc(AbortTasks(lock_procs, handle_keys),
                                <<"acceptor", "">>) EXCEPT
                         ![p].pc = "want_clients"]
    /\ OnlyLocks

\* stop_server: self.connected_clients.write().await.clear() with the handles
\* guard held, and the return
StopLocksClients ==
    LET p == <<"stop", "">> IN
    /\ lock_procs[p].pc = "want_clients"
    /\ Free("connected_clients")
    /\ lock_owner' = Released(lock_owner, p)
    /\ lock_procs' = [lock_procs EXCEPT ![p].pc = "done"]
    /\ UNCHANGED handle_keys
    /\ OnlyLocks

\* the watchdog finds the connection of ip dead
WatchdogFindsDead(ip) ==
    LET p == <<"watchdog", "">> IN
    /\ lock_procs[p].pc = "tick" /\ ~lock_procs[p].cancelled
    /\ TaskAlive(lock_procs[<<"task", ip>>])
    /\ lock_procs' = [lock_procs EXCEPT ![p].pc = "want_handles", ![p].ip = ip]
    /\ UNCHANGED <<lock_owner, handle_keys>>
    /\ OnlyLocks

\* watchdog: `if let Some(handle) = connection_handles.write().await
\* .remove(&ip) { handle.abort(); }` -- the guard is dropped after the block
WatchdogLocksHandles ==
    LET p == <<"watchdog", "">> IN
    /\ lock_procs[p].pc = "want_handles" /\ ~lock_procs[p].cancelled
    /\ Free("connection_handles")
    /\ handle_keys' = handle_keys \ {lock_procs[p].ip}
    /\ lock_procs' = [AbortTasks(lock_procs, handle_keys \cap {lock_procs[p].ip})
                         EXCEPT ![p].pc = "want_clients"]
    /\ UNCHANGED lock_owner
    /\ OnlyLocks

\* watchdog: `let mut clients = connected_clients.write().await` to the end
\* of the iteration
WatchdogLocksClients ==
    LET p == <<"watchdog", "">> IN
    /\ lock_procs[p].pc = "want_clients" /\ ~lock_procs[p].cancelled
    /\ Free("connected_clients")
    /\ lock_procs' = [lock_procs EXCEPT ![p].pc = LoopPc("tick"), ![p].ip = ""]
    /\ UNCHANGED <<lock_owner, handle_keys>>
    /\ OnlyLocks

\* acceptor: accept() returns a socket of ip, which is not blacklisted;
\* connection_handles.read().await.contains_key(&ip)
AcceptorAccepts(ip) ==
    LET p == <<"acceptor", "">> IN
    /\ lock_procs[p].pc = "accept" /\ ~lock_procs[p].cancelled
    /\ lock_procs[p].accepts < MaxAccepts
    /\ lock_procs[<<"disconnect", ip>>].pc = "idle"
    /\ Free("connection_handles")
    /\ lock_procs' = [lock_procs EXCEPT
                         ![p].pc = IF ip \in handle_keys THEN "want_handles"
                                   ELSE "want_clients",
                         ![p].ip = ip,
                         ![p].accepts = @ + 1]
    /\ UNCHANGED <<lock_owner, handle_keys>>
    /\ OnlyLocks

\* acceptor, duplicate connection: `if let Some(old_handle) =
\* connection_handles.write().await.remove(&ip)` -- the guard lives to the
\* end of the block, over the sleep of 100 ms
AcceptorLocksHandles ==
    LET p == <<"acceptor", "">> IN
    /\ lock_procs[p].pc = "want_handles" /\ ~lock_procs[p].cancelled
    /\ Free("connection_handles")
    /\ IF lock_procs[p].ip \in handle_keys
       THEN /\ handle_keys' = handle_keys \ {lock_procs[p].ip}
            /\ lock_owner' = [lock_owner EXCEPT !["connection_handles"] = p]
            /\ lock_procs' = [AbortTasks(lock_procs, {lock_procs[p].ip}) EXCEPT
                                 ![p].pc = "sleep"]
       ELSE /\ lock_procs' = [lock_procs EXCEPT ![p].pc = "want_clients"]
            /\ UNCHANGED <<lock_owner, handle_keys>>
    /\ OnlyLocks

\* acceptor: the sleep ends and the block with it
AcceptorWakes ==
    LET p == <<"acceptor", "">> IN
    /\ lock_procs[p].pc = "sleep" /\ ~lock_procs[p].cancelled
    /\ lock_owner' = Released(lock_owner, p)
    /\ lock_procs' = [lock_procs EXCEPT ![p].pc = "want_clients"]
    /\ UNCHANGED handle_keys
    /\ OnlyLocks

\* acceptor: connected_clients.write().await.push(ip), then the connection
\* task is spawned (the earlier task of ip is gone by then)
AcceptorLocksClients ==
    LET p == <<"acceptor", "">> IN
    /\ lock_procs[p].pc = "want_clients" /\ ~lock_procs[p].cancelled
    /\ Free("connected_clients")
    /\ ~TaskAlive(lock_procs[<<"task", lock_procs[p].ip>>])
    /\ lock_procs' = [lock_procs EXCEPT
                         ![p].pc = "insert",
                         ![<<"task", lock_procs[p].ip>>] =
                             [NoLockProc EXCEPT !.pc = "reading"]]
    /\ UNCHANGED <<lock_owner, handle_keys>>
    /\ OnlyLocks

\* acceptor: connection_handles.write().await.insert(ip, abort_handle)
AcceptorInserts ==
    LET p == <<"acceptor", "">> IN
    /\ lock_procs[p].pc = "insert" /\ ~lock_procs[p].cancelled
    /\ Free("connection_handles")
    /\ handle_keys' = handle_keys \cup {lock_procs[p].ip}
    /\ lock_procs' = [lock_procs EXCEPT ![p].pc = LoopPc("accept"),
                                        ![p].ip = ""]
    /\ UNCHANGED lock_owner
    /\ OnlyLocks

NextLocks ==
    \/ \E p \in LockProcs : LockProcCancelled(p)
    \/ \E ip \in IPs : TaskReturns(ip)
    \/ \E ip \in IPs : TaskLocksClients(ip)
    \/ \E ip \in IPs : TaskLocksHandles(ip)
    \/ \E ip \in IPs : DisconnectClientCalled(ip)
    \/ \E ip \in IPs : DisconnectLocksHandles(ip)
    \/ \E ip \in IPs : DisconnectLocksClients(ip)
    \/ StopServerCalled
    \/ StopLocksHandles
    \/ StopLocksClients
    \/ \E ip \in IPs : WatchdogFindsDead(ip)
    \/ WatchdogLocksHandles
    \/ WatchdogLocksClients
    \/ \E ip \in IPs : AcceptorAccepts(ip)
    \/ AcceptorLocksHandles
    \/ AcceptorWakes
    \/ AcceptorLocksClients
    \/ AcceptorInserts

-----------------------------------------------------------------------------
(* plc_parser.rs: the schema-driven parser *)

\* type_size of parse_with_config; 0 = unknown type (the block is skipped)
TypeSize(data_type) ==
    CASE data_type = "BYTE" -> 1
      [] data_type \in {"WORD", "INT"} -> 2
      [] data_type \in {"DWORD", "DINT", "REAL"} -> 4
      [] data_type \in {"LWORD", "LINT", "LREAL"} -> 8
      [] OTHER -> 0

\* a decoder that takes the low byte first
BytesToWordLittleEndian(high_byte, low_byte) == low_byte * 256 + high_byte

\* bytes_to_word
BytesToWord(high_byte, low_byte) == high_byte * 256 + low_byte

\* Numbers wider than the checker's integers are kept as sequences of decimal
\* digits, most significant first, without leading zeros (<<>> is 0).

\* d * m + c
RECURSIVE MulAdd(_, _, _)
MulAdd(d, m, c) ==
    IF d = <<>>
    THEN IF c = 0 THEN <<>> ELSE MulAdd(<<>>, m, c \div 10) \o <<c % 10>>
    ELSE LET x == d[Len(d)] * m + c
         IN MulAdd(SubSeq(d, 1, Len(d) - 1), m, x \div 10) \o <<x % 10>>

\* the unsigned number whose big-endian bytes are `bytes`
RECURSIVE DigitsOfBytes(_)
DigitsOfBytes(bytes) ==
    IF bytes = <<>> THEN <<>>
    ELSE MulAdd(DigitsOfBytes(SubSeq(bytes, 1, Len(bytes) - 1)), 256,
                bytes[Len(bytes)])

RECURSIVE DigitString(_)
DigitString(d) ==
    IF d = <<>> THEN "" ELSE ToString(Head(d)) \o DigitString(Tail(d))

\* format!("{}", val) of an unsigned integer
DigitsText(d) == IF d = <<>> THEN "0" ELSE DigitString(d)

\* format!("{}", val) of u32 / u64 assembled from big-endian bytes
UnsignedText(bytes) == DigitsText(DigitsOfBytes(bytes))

\* format!("{}", val) of i32::from_be_bytes / i64::from_be_bytes: two's
\* complement
SignedText(bytes) ==
    IF bytes[1] < 128 THEN UnsignedText(bytes)
    ELSE "-" \o DigitsText(MulAdd(DigitsOfBytes([j \in DOMAIN bytes |->
                                                    255 - bytes[j]]), 1, 1))

RECURSIVE StripZeros(_)
StripZeros(d) ==
    IF d # <<>> /\ Head(d) = 0 THEN StripZeros(Tail(d)) ELSE d

RECURSIVE Pow2(_)
Pow2(n) == IF n = 0 THEN 1 ELSE 2 * Pow2(n - 1)

\* bits moved by one step of a shift by k, so that every intermediate value
\* stays within the checker's integers
ShiftChunk(k) == Min(k, 20)

\* the digits of d \div m, r the remainder carried in from the left
RECURSIVE DivDigits(_, _, _)
DivDigits(d, r, m) ==
    IF d = <<>> THEN <<>>
    ELSE LET cur == r * 10 + Head(d)
         IN <<cur \div m>> \o DivDigits(Tail(d), cur % m, m)

\* d % m
RECURSIVE ModDigits(_, _, _)
ModDigits(d, r, m) ==
    IF d = <<>> THEN r ELSE ModDigits(Tail(d), (r * 10 + Head(d)) % m, m)

OddDigits(d) == d # <<>> /\ d[Len(d)] % 2 = 1

\* x.digits \div 2^k with the last bit shifted out (half) and whether any
\* earlier one was set (sticky)
RECURSIVE ShiftRight(_, _)
ShiftRight(x, k) ==
    IF k = 0 THEN x
    ELSE IF x.digits = <<>>
    THEN [digits |-> <<>>, half |-> FALSE, sticky |-> x.sticky \/ x.half]
    ELSE LET p == Pow2(ShiftChunk(k))
             out == ModDigits(x.digits, 0, p)
         IN ShiftRight([digits |-> StripZeros(DivDigits(x.digits, 0, p)),
                        half |-> out >= p \div 2,
                        sticky |-> \/ x.sticky
                                   \/ x.half
                                   \/ out % (p \div 2) # 0],
                       k - ShiftChunk(k))

\* d * 2^k
RECURSIVE ShiftLeft(_, _)
ShiftLeft(d, k) ==
    IF k = 0 THEN d
    ELSE ShiftLeft(MulAdd(d, Pow2(ShiftChunk(k)), 0),
                   k - ShiftChunk(k))

\* round to nearest, ties to even
RoundShifted(x) ==
    IF x.half /\ (x.sticky \/ OddDigits(x.digits))
    THEN MulAdd(x.digits, 1, 1) ELSE x.digits

RECURSIVE ZeroPad(_, _)
ZeroPad(d, n) == IF Len(d) >= n THEN d ELSE ZeroPad(<<0>> \o d, n)

\* format!("{:.6}", val) of the finite float (-1)^negative * m * 2^e, m given
\* by its digits: the digits of the value times 10^6, rounded, with the point
\* six places from the right
FixedText(negative, m, e) ==
    LET scaled == IF m = <<>> THEN <<>> ELSE m \o <<0, 0, 0, 0, 0, 0>>
        micro == IF e >= 0 THEN ShiftLeft(scaled, e)
                 ELSE RoundShifted(ShiftRight([digits |-> scaled,
                                               half |-> FALSE,
                                               sticky |-> FALSE], 0 - e))
        d == ZeroPad(micro, 7)
    IN (IF negative THEN "-" ELSE "")
       \o DigitString(SubSeq(d, 1, Len(d) - 6)) \o "."
       \o DigitString(SubSeq(d, Len(d) - 5, Len(d)))

\* the text of a float with all exponent bits set
NonFiniteText(negative, fraction) ==
    IF \E j \in DOMAIN fraction : fraction[j] # 0 THEN "NaN"
    ELSE IF negative THEN "-inf" ELSE "inf"

\* format!("{:.6}", f32::from_be_bytes(bytes))
RealText(bytes) ==
    LET negative == bytes[1] >= 128
        exponent == (bytes[1] % 128) * 2 + bytes[2] \div 128
        fraction == <<bytes[2] % 128, bytes[3], bytes[4]>>
    IN IF exponent = 255 THEN NonFiniteText(negative, fraction)
       ELSE IF exponent = 0
       THEN FixedText(negative, DigitsOfBytes(fraction), 0 - 149)
       ELSE FixedText(negative,
                      DigitsOfBytes([fraction EXCEPT ![1] = @ + 128]),
                      exponent - 150)

\* format!("{:.6}", f64::from_be_bytes(bytes))
LRealText(bytes) ==
    LET negative == bytes[1] >= 128
        exponent == (bytes[1] % 128) * 16 + bytes[2] \div 16
        fraction == <<bytes[2] % 16>> \o SubSeq(bytes, 3, 8)
    IN IF exponent = 2047 THEN NonFiniteText(negative, fraction)
       ELSE IF exponent = 0
       THEN FixedText(negative, DigitsOfBytes(fraction), 0 - 1074)
       ELSE FixedText(negative,
                      DigitsOfBytes([fraction EXCEPT ![1] = @ + 16]),
                      exponent - 1075)

\* value_str of one element at 0-based offset o; format!("{}", val) of an
\* integer is its decimal text
ValueStr(raw, o, data_type) ==
    CASE data_type = "BYTE" -> ToString(raw[o + 1])
      [] data_type = "WORD" -> ToString(BytesToWord(raw[o + 1], raw[o + 2]))
      [] data_type = "INT" ->
            LET w == BytesToWord(raw[o + 1], raw[o + 2])
            IN ToString(IF w >= 32768 THEN w - 65536 ELSE w)
      [] data_type = "DWORD" -> UnsignedText(SubSeq(raw, o + 1, o + 4))
      [] data_type = "DINT" -> SignedText(SubSeq(raw, o + 1, o + 4))
      [] data_type = "REAL" -> RealText(SubSeq(raw, o + 1, o + 4))
      [] data_type = "LWORD" -> UnsignedText(SubSeq(raw, o + 1, o + 8))
      [] data_type = "LINT" -> SignedText(SubSeq(raw, o + 1, o + 8))
      [] data_type = "LREAL" -> LRealText(SubSeq(raw, o + 1, o + 8))
      [] OTHER -> "?"

\* format!("{}[{}]", block.name, i)
VarName(name, i) == name \o "[" \o ToString(i) \o "]"

\* the inner loop of parse_with_config from element i on: the variables
\* pushed and the offset reached; break when the element does not fit
RECURSIVE ParseBlock(_, _, _, _)
ParseBlock(raw, block, i, offset) ==
    IF i >= block.count \/ offset + TypeSize(block.data_type) > Len(raw)
    THEN [variables |-> <<>>, offset |-> offset]
    ELSE LET rest == ParseBlock(raw, block, i + 1,
                                offset + TypeSize(block.data_type))
         IN [variables |->
                <<[name |-> VarName(block.name, i),
                   value |-> ValueStr(raw, offset, block.data_type),
                   data_type |-> block.data_type]>> \o rest.variables,
             offset |-> rest.offset]

\* the outer loop of parse_with_config from block b on
RECURSIVE ParseBlocks(_, _, _, _)
ParseBlocks(raw, blocks, b, offset) ==
    IF b > Len(blocks) THEN <<>>
    ELSE IF TypeSize(blocks[b].data_type) = 0
         THEN ParseBlocks(raw, blocks, b + 1, offset)
         ELSE LET r == ParseBlock(raw, blocks[b], 0, offset)
              IN r.variables \o ParseBlocks(raw, blocks, b + 1, r.offset)

ParseWithConfig(raw_data, blocks) == ParseBlocks(raw_data, blocks, 1, 0)

\* parse_plc_data_cached(data, ip, cached_config), called by the reader: with
\* a cached schema the schema-driven path is taken
ParsePlcDataCached(raw_data, config) == ParseWithConfig(raw_data, config.blocks)

\* the data types parse_with_config decodes
DataTypes ==
    {"BYTE", "WORD", "INT", "DWORD", "DINT", "REAL", "LWORD", "LINT", "LREAL"}

\* the name given to the block of a type in the schemas of the parser calls
BlockName(data_type) ==
    CASE data_type = "BYTE" -> "B"
      [] data_type = "WORD" -> "W"
      [] data_type = "INT" -> "I"
      [] data_type = "DWORD" -> "DW"
      [] data_type = "DINT" -> "DI"
      [] data_type = "REAL" -> "R"
      [] data_type = "LWORD" -> "LW"
      [] data_type = "LINT" -> "LI"
      [] data_type = "LREAL" -> "LR"

\* DataBlockConfig values: count is a u32
DataBlocks ==
    {[data_type |-> t, count |-> c, name |-> BlockName(t)] :
        t \in DataTypes, c \in 0..MaxCount}

\* the block lists of the parser calls, of up to max_blocks blocks
BlockLists(max_blocks) ==
    UNION {[1..n -> DataBlocks] : n \in 1..max_blocks}

\* total_size as save_plc_structure computes it
RECURSIVE TotalSize(_)
TotalSize(blocks) ==
    IF blocks = <<>> THEN 0
    ELSE TypeSize(Head(blocks).data_type) * Head(blocks).count
         + TotalSize(Tail(blocks))

\* the byte patterns the payloads of the parser calls are made of, by width:
\* integers with the top bit clear and set, the extremes, and as floats 1.0,
\* pi, -123.456, a tie of the sixth decimal (2^-7), zeros, subnormals, an
\* infinity and NaNs. A float read at the start of any pattern, whatever
\* follows it, is not finite or below 2^64 in magnitude
BytePatterns(size) ==
    CASE size = 1 -> <<<<0>>, <<5>>, <<195>>, <<128>>>>
      [] size = 2 -> <<<<0, 5>>, <<0, 10>>, <<255, 254>>, <<128, 0>>,
                       <<127, 255>>>>
      [] size = 4 -> <<<<255, 255, 255, 254>>, <<0, 0, 0, 5>>,
                       <<63, 128, 0, 0>>, <<128, 0, 0, 0>>,
                       <<60, 0, 0, 0>>, <<127, 240, 0, 0>>,
                       <<194, 246, 233, 121>>, <<67, 127, 255, 255>>>>
      [] size = 8 -> <<<<64, 9, 33, 251, 84, 68, 45, 24>>,
                       <<0, 0, 0, 0, 0, 0, 0, 5>>,
                       <<255, 255, 255, 255, 255, 255, 255, 254>>,
                       <<128, 0, 0, 0, 0, 0, 0, 0>>,
                       <<63, 128, 0, 0, 0, 0, 0, 0>>,
                       <<127, 240, 0, 0, 0, 0, 0, 0>>,
                       <<192, 94, 221, 47, 26, 159, 190, 119>>,
                       <<67, 224, 0, 0, 0, 0, 0, 0>>>>

\* the pattern of the k-th element of a payload
PatternAt(size, k) ==
    BytePatterns(size)[((k - 1) % Len(BytePatterns(size))) + 1]

\* the payload of a block list from element i of block b on, which is the
\* k-th element: the elements take successive patterns of their width
RECURSIVE PayloadFrom(_, _, _, _)
PayloadFrom(blocks, b, i, k) ==
    IF b > Len(blocks) THEN <<>>
    ELSE IF i >= blocks[b].count THEN PayloadFrom(blocks, b + 1, 0, k)
    ELSE PatternAt(TypeSize(blocks[b].data_type), k)
         \o PayloadFrom(blocks, b, i + 1, k + 1)

NoParseCall == [pc |-> "off"]

\* a call of parse_with_config with a payload of the schema's total size
InitParser ==
    \E blocks \in BlockLists(MaxBlocks) :
        parse_call = [pc |-> "called",
                      blocks |-> blocks,
                      raw_data |-> PayloadFrom(blocks, 1, 0, 1),
                      variables |-> <<>>]

\* a call of parse_with_config with a payload that ends before the schema does
InitParserShort ==
    \E blocks \in BlockLists(MaxBlocks) :
        \E len \in 0..(TotalSize(blocks) - 1) :
            parse_call = [pc |-> "called",
                          blocks |-> blocks,
                          raw_data |-> SubSeq(PayloadFrom(blocks, 1, 0, 1),
                                              1, len),
                          variables |-> <<>>]

\* the call returns its Vec<PlcVariable>
ParseWithConfigReturns ==
    /\ parse_call.pc = "called"
    /\ parse_call' = [parse_call EXCEPT
                         !.pc = "returned",
                         !.variables = ParseWithConfig(parse_call.raw_data,
                                                       parse_call.blocks)]
    /\ UNCHANGED <<tcpVars, rd, cacheVars, wsVars, dbVars, update_call,
                   broadcast_call, limits_call,
                   procVars, adminVars, lockVars>>

NextParser == ParseWithConfigReturns

-----------------------------------------------------------------------------
(* handle_client_connection *)

MAX_ACCUMULATOR_SIZE == 65536
READ_BUFFER_SIZE == 1024
READ_TIMEOUT_SECS == 10
FRAGMENT_CLEAR_SECS == 10

\* bytes handed over by one socket read
MaxRead == 3
\* bytes a PLC sends in one behaviour
MaxDelivered == 4

\* byte values a PLC sends
ByteValues == {0, 5}

\* PlcStructureConfig records of the schema store
Schemas ==
    { [blocks |-> <<[data_type |-> "WORD", count |-> 1, name |-> "W"]>>,
       total_size |-> 2],
      [blocks |-> <<[data_type |-> "BYTE", count |-> 1, name |-> "B"],
                    [data_type |-> "WORD", count |-> 1, name |-> "W"]>>,
       total_size |-> 3] }

ReadChunks == UNION {SeqsOfLen(ByteValues, n) :
                        n \in 1..Min(MaxRead, READ_BUFFER_SIZE)}

\* a reader that waits for more than the expected size
ShouldParseStrict(acc_len, expected_size) ==
    IF expected_size.some THEN acc_len > expected_size.size ELSE TRUE

\* should_parse
ShouldParse(acc_len, expected_size) ==
    IF expected_size.some THEN acc_len >= expected_size.size ELSE TRUE

\* the state a finished or not yet started reader is left in
RdIdle == [pc |-> "off"]

\* locals at the start of the loop, expected_size from the cached schema
RdStart(config) ==
    [pc |-> "top",
     config |-> config,
     expected_size |-> [some |-> TRUE, size |-> config.total_size],
     accumulator |-> <<>>,
     consecutive_timeouts |-> 0,
     valid_idle |-> 0,       \* last_valid_packet.elapsed().as_secs(), saturated
     fragment_idle |-> 0,    \* last_fragment_time.elapsed().as_secs(), saturated
     result |-> "",
     published |-> <<>>,     \* history: variables of every latest_data.insert
     written |-> 0,          \* history: bytes written to the socket
     delivered |-> <<>>,     \* history: bytes read from the socket
     max_delivered |-> MaxDelivered, \* bound: bytes the socket delivers
     reads |-> 0,            \* history: reads that returned data
     waited |-> FALSE]       \* history: some read timed out

\* a schema larger than the accumulator may grow
HugeSchema ==
    [blocks |-> <<[data_type |-> "LWORD",
                   count |-> MAX_ACCUMULATOR_SIZE \div 8 + 1, name |-> "L"]>>,
     total_size |-> MAX_ACCUMULATOR_SIZE + 8]

\* a reader of a PLC with the huge schema that has read all but `room` bytes
\* of MAX_ACCUMULATOR_SIZE, in full buffers and a last shorter read, without
\* a pause; the socket delivers up to two bytes past MAX_ACCUMULATOR_SIZE
RdNearlyFull(room) ==
    LET acc == [j \in 1..(MAX_ACCUMULATOR_SIZE - room) |-> 0]
    IN [RdStart(HugeSchema) EXCEPT
           !.accumulator = acc,
           !.delivered = acc,
           !.max_delivered = MAX_ACCUMULATOR_SIZE + 2,
           !.reads = MAX_ACCUMULATOR_SIZE \div READ_BUFFER_SIZE]

\* no row for the PLC
NoStructure == [blocks |-> <<>>, total_size |-> 0]

\* the reader starts with an empty schema cache: load_plc_structure and
\* plc_configs_cache.insert
InitReader ==
    \E config \in Schemas :
        /\ plc_structure = config
        /\ rd = RdStart(config)

\* save_plc_structure(plc_ip, blocks): the row is replaced
SavePlcStructure(config) ==
    /\ rd.pc \in {"top", "read"}
    /\ plc_structure # config
    /\ plc_structure' = config
    /\ UNCHANGED <<tcpVars, rd, cacheVars, wsVars, callVars, procVars, adminVars, lockVars>>

\* delete_plc_structure(plc_ip): the row is removed
DeletePlcStructure ==
    /\ rd.pc \in {"top", "read"}
    /\ plc_structure # NoStructure
    /\ plc_structure' = NoStructure
    /\ UNCHANGED <<tcpVars, rd, cacheVars, wsVars, callVars, procVars, adminVars, lockVars>>

\* secs pass while the reader is suspended in the read
Wait(r, secs) ==
    [r EXCEPT !.valid_idle = Min(@ + secs, INACTIVITY_TIMEOUT_SECS + 1),
              !.fragment_idle = Min(@ + secs, FRAGMENT_CLEAR_SECS + 1)]

\* secs pass and the read times out
Elapse(r, secs) == [Wait(r, secs) EXCEPT !.waited = @ \/ secs > 0]

\* the time a read that returns data has waited for it: none, or all but the
\* last second of the read timeout
ReadWaits == {0, READ_TIMEOUT_SECS - 1}

\* top of the loop: stop flag, local inactivity check, stale fragment
ReaderLoopTop ==
    /\ rd.pc = "top"
    /\ rd' = IF ~is_running
             THEN [rd EXCEPT !.pc = "ended", !.result = "ServerStopped"]
             ELSE IF rd.valid_idle > INACTIVITY_TIMEOUT_SECS
             THEN [rd EXCEPT !.pc = "ended", !.result = "Timeout"]
             ELSE IF /\ rd.accumulator # <<>>
                     /\ rd.fragment_idle > FRAGMENT_CLEAR_SECS
             THEN [rd EXCEPT !.pc = "read", !.accumulator = <<>>,
                             !.fragment_idle = 0]
             ELSE [rd EXCEPT !.pc = "read"]
    /\ UNCHANGED <<tcpVars, cacheVars, wsVars, dbVars, callVars, procVars, adminVars, lockVars>>

\* Ok(Ok(0)): the peer closed. Close and error arrive within the second
ReaderReadClosed ==
    /\ rd.pc = "read"
    /\ rd' = [rd EXCEPT !.pc = "ended", !.result = "Normal"]
    /\ UNCHANGED <<tcpVars, cacheVars, wsVars, dbVars, callVars, procVars, adminVars, lockVars>>

\* a protection that looks at the accumulator before the read is added
OverflowsAlready(acc_len, n) == acc_len > MAX_ACCUMULATOR_SIZE

\* "Proteção contra buffer overflow"
Overflows(acc_len, n) == acc_len + n > MAX_ACCUMULATOR_SIZE

\* the body of Ok(Ok(n)) after the read returned `chunk`
ProcessChunk(r, chunk, ack_ok) ==
    LET r1 == [r EXCEPT !.consecutive_timeouts = 0,
                        !.fragment_idle = 0,
                        !.delivered = @ \o chunk,
                        !.reads = @ + 1]
    IN IF Overflows(Len(r.accumulator), Len(chunk))
       THEN [r1 EXCEPT !.pc = "top", !.accumulator = <<>>]
       ELSE LET acc == r.accumulator \o chunk
                r2 == IF ShouldParse(Len(acc), r.expected_size)
                      THEN [r1 EXCEPT
                               !.valid_idle = 0,
                               !.published =
                                   Append(@, ParsePlcDataCached(acc, r.config)),
                               !.accumulator = <<>>]
                      ELSE [r1 EXCEPT !.accumulator = acc]
            IN \* "Responder com ACK": socket.write_all(b"OK\n")
               IF ack_ok
               THEN [r2 EXCEPT !.pc = "top", !.written = @ + 3]
               ELSE [r2 EXCEPT !.pc = "ended", !.result = "Error"]

\* Ok(Ok(n)), n > 0, after secs of waiting
ReaderReadData(chunk, ack_ok, secs) ==
    /\ rd.pc = "read"
    /\ Len(rd.delivered) + Len(chunk) <= rd.max_delivered
    /\ rd' = ProcessChunk(Wait(rd, secs), chunk, ack_ok)
    /\ UNCHANGED <<tcpVars, cacheVars, wsVars, dbVars, callVars, procVars, adminVars, lockVars>>

\* Ok(Err(e))
ReaderReadError ==
    /\ rd.pc = "read"
    /\ rd' = [rd EXCEPT !.pc = "ended", !.result = "Error"]
    /\ UNCHANGED <<tcpVars, cacheVars, wsVars, dbVars, callVars, procVars, adminVars, lockVars>>

\* a reader that gives up one timeout earlier
DeadAfterTwo(consecutive_timeouts) == consecutive_timeouts >= 2

\* "APÓS 3 TIMEOUTS CONSECUTIVOS, ASSUMIR CONEXÃO MORTA"
ConsideredDead(consecutive_timeouts) == consecutive_timeouts >= 3

\* Err(_): no data within READ_TIMEOUT_SECS
ReaderReadTimeout ==
    /\ rd.pc = "read"
    /\ LET r == Elapse(rd, READ_TIMEOUT_SECS)
       IN rd' = IF ConsideredDead(r.consecutive_timeouts + 1)
                THEN [r EXCEPT !.consecutive_timeouts = @ + 1,
                               !.pc = "ended", !.result = "Timeout"]
                ELSE [r EXCEPT !.consecutive_timeouts = @ + 1, !.pc = "top"]
    /\ UNCHANGED <<tcpVars, cacheVars, wsVars, dbVars, callVars, procVars, adminVars, lockVars>>

\* stop_server as the reader sees it: the flag goes down
ReaderServerStops ==
    /\ is_running
    /\ rd.pc \in {"top", "read"}
    /\ is_running' = FALSE
    /\ UNCHANGED <<active_connections, connected_clients, connection_handles,
                   unique_plcs, blacklisted_ips, ip_to_id, connection_health,
                   next_id, acceptor, watchdog, tasks, admin, first_id,
                   server_state, rd, cacheVars, wsVars, dbVars, callVars, procVars, adminVars, lockVars>>

NextReader ==
    \/ ReaderLoopTop
    \/ ReaderReadClosed
    \/ \E chunk \in ReadChunks, ack_ok \in BOOLEAN, secs \in ReadWaits :
          ReaderReadData(chunk, ack_ok, secs)
    \/ ReaderReadError
    \/ ReaderReadTimeout
    \/ ReaderServerStops
    \/ \E config \in Schemas : SavePlcStructure(config)
    \/ DeletePlcStructure

-----------------------------------------------------------------------------
(* SmartCache *)

\* seconds since the UNIX epoch at the start of a behaviour; larger than any
\* harvest interval, as the real clock is
Epoch == 20
\* seconds a behaviour of the cache model lasts
MaxTime == 3

\* the PLC whose frames feed the cache
CachePlc == "A1"

\* Option<T>: None, Some(x) and unwrap_or (unwrap_or_default of a String is
\* unwrap_or(""))
None == <<>>
Some(x) == <<x>>
UnwrapOr(opt, default) == IF opt = None THEN default ELSE opt[1]

\* `as u64` of the i64 of collect_interval_s: a negative one becomes a number
\* of 2^63 or more, for which HugeU64 stands
HugeU64 == 2147483647
AsU64(n) == IF n >= 0 THEN n ELSE HugeU64

\* the enabled TagMapping rows of CachePlc, ORDER BY tag_name (get_active_tags);
\* variable_path is kept split at '.', starts_db = starts_with("DB")
TagMappings ==
    << [tag_name |-> "TC", variable_path |-> <<"W[0]">>, starts_db |-> FALSE,
        collect_mode |-> Some("change"), collect_interval_s |-> Some(1)],
       [tag_name |-> "TI", variable_path |-> <<"W[0]">>, starts_db |-> FALSE,
        collect_mode |-> Some("interval"), collect_interval_s |-> Some(2)] >>

\* format!("{}:{}", plc_ip, tag.tag_name)
TagKey(plc_ip, tag_name) == plc_ip \o ":" \o tag_name

Keys == {TagKey(CachePlc, TagMappings[i].tag_name) : i \in DOMAIN TagMappings}

\* the parsed frames the updater receives: the value of W[0]
FrameValues == {"5", "7"}
Frame(v) == <<[name |-> "W[0]", value |-> v, data_type |-> "WORD"]>>

NoEntry == [present |-> FALSE]
NoValue == ""

\* str::parse::<u8> / <u64> over the texts ToString produces; -1 = Err
ParseUnsigned(str, max) ==
    IF \E n \in 0..max : ToString(n) = str
    THEN CHOOSE n \in 0..max : ToString(n) = str
    ELSE -1

\* (search_name, bit_index) of the Bit-Parser; bit = -1 is None
SearchOf(tag) ==
    IF Len(tag.variable_path) >= 2 /\ ~tag.starts_db
    THEN IF /\ Len(tag.variable_path) = 2
            /\ ParseUnsigned(tag.variable_path[2], 255) >= 0
         THEN [name |-> tag.variable_path[1],
               bit |-> ParseUnsigned(tag.variable_path[2], 255)]
         ELSE [name |-> "", bit |-> -1]
    ELSE [name |-> tag.variable_path[1], bit |-> -1]

\* variables.iter().find(|v| v.name == search_name): index, 0 = None
FindVariable(variables, name) ==
    IF \E i \in DOMAIN variables : variables[i].name = name
    THEN CHOOSE i \in DOMAIN variables :
            /\ variables[i].name = name
            /\ \A j \in 1..(i - 1) : variables[j].name # name
    ELSE 0

\* the unsigned integers whose decimal text the frames of the model hold,
\* as digits
U64Candidates ==
    UNION {{DigitsOfBytes(BytePatterns(size)[i]) :
               i \in DOMAIN BytePatterns(size)} : size \in {1, 2, 4, 8}}
    \cup {DigitsOfBytes(<<n>>) : n \in 0..255}

\* variable.value.parse::<u64>() over these texts: the text of a negative
\* integer or of a float is none of them
ParseU64(str) ==
    IF \E d \in U64Candidates : DigitsText(d) = str
    THEN [ok |-> TRUE,
          digits |-> CHOOSE d \in U64Candidates : DigitsText(d) = str]
    ELSE [ok |-> FALSE, digits |-> <<>>]

\* a bit test that counts the bits from 1
BitValFromOne(int_val, bit) ==
    OddDigits(ShiftRight([digits |-> int_val, half |-> FALSE,
                          sticky |-> FALSE], (bit + 1) % 64).digits)

\* (int_val >> bit) & 1 == 1; a u64 is shifted by bit % 64 (for bit >= 64
\* the shift overflows, which a build with overflow checks turns into a panic;
\* the tags of the model have bit < 64)
BitVal(int_val, bit) ==
    OddDigits(ShiftRight([digits |-> int_val, half |-> FALSE,
                          sticky |-> FALSE], bit % 64).digits)

\* "Determinar valor final"
FinalValue(variable, bit) ==
    IF bit >= 0
    THEN LET int_val == ParseU64(variable.value)
         IN IF int_val.ok
            THEN IF BitVal(int_val.digits, bit) THEN "TRUE" ELSE "FALSE"
            ELSE variable.value
    ELSE variable.value

\* value_changed of update_from_tcp
ValueChanged(tag, tracking, key, final_value) ==
    IF tag.collect_mode = Some("change") /\ tracking[key] # NoValue
    THEN tracking[key] # final_value
    ELSE TRUE

\* last_sent of the CachedTagValue that update_from_tcp inserts
InsertedLastSent(old) == 0

\* the body of the loop of update_from_tcp for one tag: the new
\* (tag_cache, change_tracking)
UpdateTag(c, plc_ip, variables, tag) ==
    LET search == SearchOf(tag)
        i == FindVariable(variables, search.name)
        key == TagKey(plc_ip, tag.tag_name)
    IN IF i = 0 THEN c
       ELSE LET final_value == FinalValue(variables[i], search.bit)
            IN [cache |->
                   [c.cache EXCEPT ![key] =
                       [present |-> TRUE,
                        tag_name |-> tag.tag_name,
                        plc_ip |-> plc_ip,
                        value |-> final_value,
                        data_type |-> IF search.bit >= 0 THEN "BOOL"
                                      ELSE variables[i].data_type,
                        collect_mode |->
                            UnwrapOr(tag.collect_mode, ""),
                        interval_s |->
                            AsU64(UnwrapOr(tag.collect_interval_s, 1)),
                        last_sent |-> InsertedLastSent(c.cache[key]),
                        changed |-> ValueChanged(tag, c.tracking, key,
                                                 final_value)]],
                 tracking |->
                   IF tag.collect_mode = Some("change")
                   THEN [c.tracking EXCEPT ![key] = final_value]
                   ELSE c.tracking]

RECURSIVE UpdateTags(_, _, _, _, _)
UpdateTags(c, plc_ip, variables, tags, k) ==
    IF k > Len(tags) THEN c
    ELSE UpdateTags(UpdateTag(c, plc_ip, variables, tags[k]),
                    plc_ip, variables, tags, k + 1)

\* a TagMapping with variable_path <base>.<bit>
BitTag(base, bit) ==
    [tag_name |-> "TB", variable_path |-> <<base, ToString(bit)>>,
     starts_db |-> FALSE, collect_mode |-> Some("interval"),
     collect_interval_s |-> Some(1)]

\* the bit numbers of a u64
BitIndexes == 0..63

NoUpdateCall == [pc |-> "off"]

\* one run of the loop body of update_from_tcp: the tag addresses a bit of
\* the variable W[0], which parse_with_config decoded from raw
InitUpdateCall ==
    \E data_type \in DataTypes, bit \in BitIndexes :
        \E n \in DOMAIN BytePatterns(TypeSize(data_type)) :
            LET raw == BytePatterns(TypeSize(data_type))[n]
            IN update_call =
                  [pc |-> "called",
                   tag |-> BitTag("W[0]", bit),
                   raw |-> raw,
                   variables |->
                       ParseWithConfig(raw, <<[data_type |-> data_type,
                                               count |-> 1, name |-> "W"]>>),
                   entry |-> NoEntry]

\* the loop body has run on an empty cache: the entry it inserted
UpdateTagReturns ==
    /\ update_call.pc = "called"
    /\ LET key == TagKey(CachePlc, update_call.tag.tag_name)
           c == UpdateTag([cache |-> [k \in {key} |-> NoEntry],
                           tracking |-> [k \in {key} |-> NoValue]],
                          CachePlc, update_call.variables, update_call.tag)
       IN update_call' = [update_call EXCEPT !.pc = "returned",
                                             !.entry = c.cache[key]]
    /\ UNCHANGED <<tcpVars, rd, cacheVars, wsVars, dbVars, parse_call,
                   broadcast_call, limits_call,
                   procVars, adminVars, lockVars>>

NextUpdateCall == UpdateTagReturns

NoEmission == [count |-> 0, last_time |-> 0, prev_time |-> 0,
               last_value |-> NoValue, prev_value |-> NoValue]

InitCache ==
    /\ tag_cache = [k \in Keys |-> NoEntry]
    /\ change_tracking = [k \in Keys |-> NoValue]
    /\ now = Epoch
    /\ emitted = [k \in Keys |-> NoEmission]
    /\ fresh = [k \in Keys |-> {}]

\* the keys of the tags of a collect mode that a frame has a variable for
Resolved(plc_ip, variables, mode) ==
    {TagKey(plc_ip, TagMappings[i].tag_name) :
        i \in {j \in DOMAIN TagMappings :
                  /\ TagMappings[j].collect_mode = Some(mode)
                  /\ FindVariable(variables,
                                  SearchOf(TagMappings[j]).name) # 0}}

\* the cache updater applies one frame: update_from_tcp (timestamp_ns, which
\* nothing reads, is not kept)
ApplyUpdate(variables) ==
    LET c == UpdateTags([cache |-> tag_cache, tracking |-> change_tracking],
                        CachePlc, variables, TagMappings, 1)
    IN /\ tag_cache' = c.cache
       /\ change_tracking' = c.tracking
       /\ fresh' = [k \in Keys |->
                       IF k \in Resolved(CachePlc, variables, "change")
                       THEN fresh[k] \cup {c.cache[k].value}
                       ELSE fresh[k]]

UpdateFromTcp(variables) ==
    /\ ApplyUpdate(variables)
    /\ UNCHANGED <<now, emitted, tcpVars, rd, wsVars, dbVars, callVars, procVars, adminVars, lockVars>>

\* time_since_last, in seconds
TimeSinceLast(cached) ==
    IF now >= cached.last_sent THEN now - cached.last_sent ELSE 0

\* should_send of get_tags_for_broadcast
ShouldSend(cached, interval_s) ==
    CASE cached.collect_mode = "change" ->
            cached.changed /\ TimeSinceLast(cached) >= interval_s
      [] cached.collect_mode = "interval" ->
            cached.interval_s = interval_s /\ TimeSinceLast(cached) >= interval_s
      [] OTHER -> FALSE

KeysToUpdate(interval_s) ==
    {k \in Keys : tag_cache[k].present /\ ShouldSend(tag_cache[k], interval_s)}

\* the periodic tasks of start_smart_broadcasting and the intervals they pass
Harvesters == {"fast", "medium", "slow", "change"}
HarvestIntervals(h) ==
    CASE h = "fast" -> 1..3
      [] h = "medium" -> 4..7
      [] h = "slow" -> 8..10
      [] h = "change" -> {0}

\* history: tag k is emitted now with value v
Emit(e, v) ==
    [count |-> Min(e.count + 1, 2),
     last_time |-> now, prev_time |-> e.last_time,
     last_value |-> v, prev_value |-> e.last_value]

\* the second loop of get_tags_for_broadcast over keys_to_update, and the
\* result handed to the caller
MarkSent(keys_to_update, result) ==
    /\ tag_cache' = [k \in Keys |->
                        IF k \in keys_to_update /\ tag_cache[k].present
                        THEN [tag_cache[k] EXCEPT !.last_sent = now,
                                                  !.changed = FALSE]
                        ELSE tag_cache[k]]
    /\ emitted' = [k \in Keys |->
                      IF k \in keys_to_update
                      THEN Emit(emitted[k], result[k])
                      ELSE emitted[k]]
    /\ fresh' = [k \in Keys |->
                    IF k \in keys_to_update THEN {} ELSE fresh[k]]

\* one call get_tags_for_broadcast(interval_s) by harvester h, run to its end
\* without another task in between
GetTagsForBroadcast(h, interval_s) ==
    /\ KeysToUpdate(interval_s) # {}
    /\ MarkSent(KeysToUpdate(interval_s),
                [k \in Keys |-> IF tag_cache[k].present THEN tag_cache[k].value
                                                         ELSE NoValue])
    /\ UNCHANGED <<change_tracking, now, tcpVars, rd, wsVars, dbVars, callVars, procVars, adminVars, lockVars>>

\* a second passes
ClockTick ==
    /\ now < Epoch + MaxTime
    /\ now' = now + 1
    /\ UNCHANGED <<tag_cache, change_tracking, emitted, fresh, tcpVars, rd,
                   wsVars, dbVars, callVars, procVars, adminVars, lockVars>>

NextCache ==
    \/ \E v \in FrameValues : UpdateFromTcp(Frame(v))
    \/ \E h \in Harvesters : \E i \in HarvestIntervals(h) :
          GetTagsForBroadcast(h, i)
    \/ ClockTick

-----------------------------------------------------------------------------
(* The harvester tasks, one call of get_tags_for_broadcast in two steps *)

\* harvest calls that are in progress at the same time
MaxCalls == 2
\* seconds a behaviour with overlapping harvest calls lasts
MaxHarvestTime == 1

\* a harvester between two calls
HvIdle == [pc |-> "idle", keys_to_update |-> {},
           result |-> [k \in Keys |-> NoValue]]

InCall == {h \in Harvesters : hv[h].pc # "idle"}

InitHarvest == hv = [h \in Harvesters |-> HvIdle]

\* harvester h enters get_tags_for_broadcast(interval_s): the first loop fills
\* result and keys_to_update (a call that selects nothing changes nothing and
\* is left out)
HarvestSelect(h, interval_s) ==
    /\ hv[h].pc = "idle"
    /\ Cardinality(InCall) < MaxCalls
    /\ KeysToUpdate(interval_s) # {}
    /\ hv' = [hv EXCEPT ![h] =
                 [pc |-> "update",
                  keys_to_update |-> KeysToUpdate(interval_s),
                  result |-> [k \in Keys |->
                                 IF k \in KeysToUpdate(interval_s)
                                 THEN tag_cache[k].value ELSE NoValue]]]
    /\ UNCHANGED <<tcpVars, rd, cacheVars, srvVars, dbVars, callVars, procVars, adminVars, lockVars>>

\* the second loop of the call (get_mut on every selected key) and its return:
\* the harvester puts the result into its broadcast; the call began in the
\* second that `now` shows (HarvestTick)
HarvestUpdate(h) ==
    /\ hv[h].pc = "update"
    /\ MarkSent(hv[h].keys_to_update, hv[h].result)
    /\ hv' = [hv EXCEPT ![h] = HvIdle]
    /\ UNCHANGED <<change_tracking, now, tcpVars, rd, srvVars, dbVars, callVars, procVars, adminVars, lockVars>>

\* a second passes; a call, which lasts microseconds, is taken to begin and
\* end in the same second
HarvestTick ==
    /\ InCall = {}
    /\ now < Epoch + MaxHarvestTime
    /\ ClockTick

NextHarvest ==
    \/ \E v \in FrameValues : UpdateFromTcp(Frame(v))
    \/ \E h \in Harvesters : \E i \in HarvestIntervals(h) : HarvestSelect(h, i)
    \/ \E h \in Harvesters : HarvestUpdate(h)
    \/ HarvestTick

-----------------------------------------------------------------------------
(* get_tags_for_broadcast on the cache of two PLCs *)

\* the PLCs; each has one enabled TagMapping row, and the two rows carry the
\* same tag_name (the table has UNIQUE(plc_ip, variable_path) only)
BroadcastPlcs == {"A1", "A2"}
BroadcastTagName == "T"
BroadcastKeys == {TagKey(p, BroadcastTagName) : p \in BroadcastPlcs}

\* what the columns collect_mode and collect_interval_s of a row can hold
\* (nothing validates them)
CollectModes == {None, Some("change"), Some("interval"), Some("on_change")}
CollectIntervals == {None, Some(-1), Some(0), Some(5), Some(11)}

BroadcastTag(mode, interval) ==
    [tag_name |-> BroadcastTagName, variable_path |-> <<"W[0]">>,
     starts_db |-> FALSE, collect_mode |-> mode,
     collect_interval_s |-> interval]

NoBroadcastCall == [pc |-> "off"]
NoLimitsCall == [pc |-> "off"]

InitCallsOff ==
    /\ broadcast_call = NoBroadcastCall
    /\ limits_call = NoLimitsCall

\* the rows of the two PLCs, the cache before the first frame
InitBroadcastCall ==
    \E m1, m2 \in CollectModes : \E i1, i2 \in CollectIntervals :
        broadcast_call =
            [pc |-> "idle",
             tags |-> [p \in BroadcastPlcs |->
                          IF p = "A1" THEN BroadcastTag(m1, i1)
                          ELSE BroadcastTag(m2, i2)],
             cache |-> [k \in BroadcastKeys |-> NoEntry],
             tracking |-> [k \in BroadcastKeys |-> NoValue],
             interval_s |-> 0,
             keys_to_update |-> {},
             result |-> <<>>]

\* update_from_tcp with a frame of PLC p
BroadcastUpdateFromTcp(p, v) ==
    /\ broadcast_call.pc \in {"idle", "returned"}
    /\ LET c == UpdateTag([cache |-> broadcast_call.cache,
                           tracking |-> broadcast_call.tracking],
                          p, Frame(v), broadcast_call.tags[p])
       IN broadcast_call' = [broadcast_call EXCEPT !.pc = "idle",
                                                   !.cache = c.cache,
                                                   !.tracking = c.tracking,
                                                   !.keys_to_update = {},
                                                   !.result = <<>>]
    /\ UNCHANGED <<tcpVars, rd, cacheVars, wsVars, dbVars, parse_call,
                   update_call, limits_call, procVars, adminVars, lockVars>>

\* result after the first loop has inserted the entries of keys in the
\* order `order` of tag_cache.iter(): a map from tag_name to value, where a
\* later insert replaces an earlier one of the same tag_name
RECURSIVE ResultOf(_, _, _)
ResultOf(cache, order, result) ==
    IF order = <<>> THEN result
    ELSE LET cached == cache[Head(order)]
         IN ResultOf(cache, Tail(order),
                     [n \in DOMAIN result \cup {cached.tag_name} |->
                         IF n = cached.tag_name THEN cached.value
                         ELSE result[n]])

\* the orders in which an iteration can visit the keys
OrdersOf(keys) ==
    {o \in [1..Cardinality(keys) -> keys] :
        \A i, j \in DOMAIN o : i # j => o[i] # o[j]}

\* one call get_tags_for_broadcast(interval_s) by a harvester, from entry to
\* return
BroadcastGetTags(h, interval_s) ==
    /\ broadcast_call.pc \in {"idle", "returned"}
    /\ LET cache == broadcast_call.cache
           keys_to_update ==
               {k \in BroadcastKeys :
                   cache[k].present /\ ShouldSend(cache[k], interval_s)}
       IN \E order \in OrdersOf(keys_to_update) :
             broadcast_call' =
                 [broadcast_call EXCEPT
                     !.pc = "returned",
                     !.interval_s = interval_s,
                     !.keys_to_update = keys_to_update,
                     !.result = ResultOf(cache, order, <<>>),
                     !.cache = [k \in BroadcastKeys |->
                                   IF k \in keys_to_update
                                   THEN [cache[k] EXCEPT !.last_sent = now,
                                                         !.changed = FALSE]
                                   ELSE cache[k]]]
    /\ UNCHANGED <<tcpVars, rd, cacheVars, wsVars, dbVars, parse_call,
                   update_call, limits_call, procVars, adminVars, lockVars>>

NextBroadcastCall ==
    \/ \E p \in BroadcastPlcs : \E v \in FrameValues :
          BroadcastUpdateFromTcp(p, v)
    \/ \E h \in Harvesters : \E i \in HarvestIntervals(h) :
          BroadcastGetTags(h, i)

-----------------------------------------------------------------------------
(* WebSocketServer *)

\* listeners that start() binds (config.bind_interfaces)
NumListeners == 2
\* config.max_clients
max_clients == 1
\* sockets that arrive at the listeners in one behaviour
MaxSockets == 2
\* sockets that arrive in one behaviour of a server that the PLCs feed
MaxFeedSockets == 1
\* frames the TCP readers publish in one behaviour
MaxFrames == 1
\* reload_tag_groups calls in one behaviour
MaxReloads == 1
\* broadcast messages a client has waiting at one time
MaxInbox == 1
\* responses a client has waiting in its channel at one time
MaxResponses == 1
\* mpsc::channel::<CacheUpdateData>(100)
UPDATE_CHANNEL_CAPACITY == 100

\* the plc_ips of the SUBSCRIBE_PLCS commands the clients send
SubscriptionInputs == {{ip} : ip \in IPs}

Listeners == 1..NumListeners
ClientIds == 1..MaxSockets

NoServerTask == [pc |-> "none", cancelled |-> FALSE]
NoClient == [present |-> FALSE, subscribed_plcs |-> {}]

\* WebSocketServer::new
InitWs ==
    /\ ws_state = "new"
    /\ ws_is_running = FALSE
    /\ ws_connected_clients = [id \in ClientIds |-> NoClient]
    /\ ws_active_connections = 0
    /\ total_connections = 0
    /\ server_tasks = [a \in Listeners |-> NoServerTask]
    /\ client_tasks = <<>>
    /\ consumers = <<>>
    /\ ws_harvesters = {}
    /\ sockets = 0
    /\ published = <<>>
    /\ applied = <<>>
    /\ after_stop = {}

\* what start_smart_broadcasting spawns: a cache processor behind a new
\* channel with the event listener that feeds it, and the four harvesters
NewConsumer == [pc |-> "recv", queue |-> <<>>]

\* WebSocketServer::start after its two early returns, with the listeners
\* that were bound: the flag, an acceptor for each, start_smart_broadcasting
WsStartOk(bound) ==
    /\ ws_state = "new"
    /\ ~ws_is_running
    /\ ws_is_running' = TRUE
    /\ server_tasks' = [a \in Listeners |->
                           IF a \in bound
                           THEN [pc |-> "accept", cancelled |-> FALSE]
                           ELSE NoServerTask]
    /\ consumers' = Append(consumers, NewConsumer)
    /\ ws_harvesters' = Harvesters
    /\ ws_state' = "some"
    /\ UNCHANGED <<sockets, total_connections, clientVars, published, applied,
                   after_stop, hv, tcpVars, rd, cacheVars, dbVars, callVars,
                   procVars, lockVars>>

\* start_websocket_server: a new WebSocketServer is started and stored, every
\* address bound
WsStart == WsStartOk(Listeners) /\ UNCHANGED adminVars

\* start_websocket_server with its result, whatever the state of the server
\* and the addresses that could be bound
StartWebsocketServer(bound) ==
    /\ ws_state \in {"new", "some"}
    /\ IF StartFails(ws_state = "some" \/ ws_is_running, bound = {})
       THEN /\ last_call' = [op |-> "start_websocket_server", arg |-> bound,
                             result |-> "Err"]
            /\ UNCHANGED <<tcpVars, rd, cacheVars, wsVars, dbVars, callVars,
                           procVars, lockVars>>
       ELSE /\ last_call' = [op |-> "start_websocket_server", arg |-> bound,
                             result |-> "Ok"]
            /\ WsStartOk(bound)

\* JoinHandle::abort on an acceptor: one suspended in accept() is dropped at
\* once, one that is running is dropped at its next await
AbortServerTask(t) ==
    CASE t.pc = "accept" -> [t EXCEPT !.pc = "aborted"]
      [] t.pc = "admit" -> [t EXCEPT !.cancelled = TRUE]
      [] OTHER -> t

\* stop_websocket_server: stop(), then the state is set to None. server_handle
\* holds the acceptor of the first listener; the harvesters' handles
\* (interval_handles) and the cache processor's are not touched
WsStop ==
    /\ ws_state = "some"
    /\ ws_is_running
    /\ ws_is_running' = FALSE
    /\ server_tasks' = [server_tasks EXCEPT ![1] = AbortServerTask(@)]
    /\ ws_connected_clients' = [id \in ClientIds |-> NoClient]
    /\ ws_active_connections' = 0
    /\ ws_state' = "stopped"
    /\ UNCHANGED <<sockets, total_connections, client_tasks, feedVars,
                   ws_harvesters, after_stop, hv, tcpVars, rd, cacheVars,
                   dbVars, callVars, procVars, adminVars, lockVars>>

\* reload_websocket_tag_groups: reload_tag_groups clears the cache, aborts the
\* harvesters (suspended in tick()) and calls start_smart_broadcasting again
WsReload ==
    /\ ws_state = "some"
    /\ Len(consumers) <= MaxReloads
    /\ tag_cache' = [k \in Keys |-> NoEntry]
    /\ change_tracking' = [k \in Keys |-> NoValue]
    /\ consumers' = Append(consumers, NewConsumer)
    /\ ws_harvesters' = Harvesters
    /\ UNCHANGED <<now, emitted, fresh, lifeVars, acceptVars, clientVars,
                   published, applied, after_stop, hv, tcpVars, rd, dbVars, callVars, procVars, adminVars, lockVars>>

\* update_tx.try_send of one listener
TrySend(c, n) ==
    IF c.pc = "recv" /\ Len(c.queue) < UPDATE_CHANNEL_CAPACITY
    THEN [c EXCEPT !.queue = Append(@, n)]
    ELSE c

\* a TCP reader emits "websocket-cache-update" (tcp_server.rs:850): every
\* listener registered so far runs and offers the frame to its channel
WsPublish(v) ==
    /\ consumers # <<>>
    /\ Len(published) < MaxFrames
    /\ published' = Append(published, v)
    /\ consumers' = [p \in DOMAIN consumers |->
                        TrySend(consumers[p], Len(published) + 1)]
    /\ UNCHANGED <<applied, lifeVars, acceptVars, clientVars, ws_harvesters,
                   after_stop, hv, tcpVars, rd, cacheVars, dbVars, callVars, procVars, adminVars, lockVars>>

\* one turn of the loop of cache processor p
ConsumerRecv(p) ==
    /\ consumers[p].pc = "recv"
    /\ consumers[p].queue # <<>>
    /\ IF ~ws_is_running
       THEN /\ consumers' = [consumers EXCEPT ![p] =
                                [pc |-> "ended", queue |-> <<>>]]
            /\ UNCHANGED <<applied, after_stop, tag_cache, change_tracking,
                           fresh>>
       ELSE /\ consumers' = [consumers EXCEPT ![p].queue = Tail(@)]
            /\ ApplyUpdate(Frame(published[Head(consumers[p].queue)]))
            /\ applied' = Append(applied,
                                 [consumer |-> p,
                                  frame |-> Head(consumers[p].queue)])
            /\ after_stop' = IF ws_state = "stopped"
                             THEN after_stop \cup {"apply"} ELSE after_stop
    /\ UNCHANGED <<now, emitted, published, lifeVars, acceptVars, clientVars,
                   ws_harvesters, hv, tcpVars, rd, dbVars, callVars, procVars, adminVars, lockVars>>

\* the keys the calls of one turn of harvester h return: an entry marked by
\* one call (last_sent := now) is not due for a later call of the same turn
TurnKeys(h) == UNION {KeysToUpdate(i) : i \in HarvestIntervals(h)}

\* subscribed_plcs of the ConnectedClient of client task c
SubscribedPlcs(c) == ws_connected_clients[client_tasks[c].id].subscribed_plcs

\* client tasks whose broadcast receiver exists
Receivers == {c \in DOMAIN client_tasks :
                 client_tasks[c].pc \in {"handshake", "live", "sender"}}

\* one turn of the loop of harvester h: tick() returns, the calls of
\* get_tags_for_broadcast, the send on the broadcast channel, and the test of
\* is_running at the loop head
HarvesterTurn(h) ==
    /\ h \in ws_harvesters
    /\ TurnKeys(h) # {} \/ ~ws_is_running
    /\ \A c \in Receivers : Len(client_tasks[c].inbox) < MaxInbox
    /\ MarkSent(TurnKeys(h),
                [k \in Keys |-> IF tag_cache[k].present THEN tag_cache[k].value
                                                         ELSE NoValue])
    /\ IF TurnKeys(h) # {} /\ Receivers # {}
       THEN /\ client_tasks' = [c \in DOMAIN client_tasks |->
                                   IF c \in Receivers
                                   THEN [client_tasks[c] EXCEPT
                                            !.inbox = Append(@,
                                               [origin |-> CachePlc,
                                                subscribed_plcs |->
                                                   SubscribedPlcs(c)])]
                                   ELSE client_tasks[c]]
            /\ after_stop' = IF ws_state = "stopped"
                             THEN after_stop \cup {"push"} ELSE after_stop
       ELSE UNCHANGED <<client_tasks, after_stop>>
    /\ ws_harvesters' = IF ws_is_running THEN ws_harvesters
                                         ELSE ws_harvesters \ {h}
    /\ UNCHANGED <<change_tracking, now, lifeVars, acceptVars,
                   ws_connected_clients, ws_active_connections, feedVars, hv,
                   tcpVars, rd, dbVars, callVars, procVars, adminVars, lockVars>>

\* where an acceptor goes after one turn of its loop: dropped if aborted
\* meanwhile, else `while is_running`
LoopHead(t) ==
    IF t.cancelled THEN [pc |-> "aborted", cancelled |-> FALSE]
    ELSE IF ws_is_running THEN [pc |-> "accept", cancelled |-> FALSE]
    ELSE [pc |-> "ended", cancelled |-> FALSE]

\* active_connections.load() >= max_clients as u64
LimitReached == ws_active_connections < 0 \/ ws_active_connections >= max_clients

\* accept() of listener a returns a socket, one of the max_sockets that
\* arrive in a behaviour; the limit is tested
WsAccept(a, max_sockets) ==
    /\ server_tasks[a].pc = "accept"
    /\ sockets < max_sockets
    /\ sockets' = sockets + 1
    /\ server_tasks' = [server_tasks EXCEPT ![a] =
                           IF LimitReached THEN LoopHead(@)
                           ELSE [@ EXCEPT !.pc = "admit"]]
    /\ UNCHANGED <<total_connections, lifeVars, clientVars, feedVars,
                   ws_harvesters, after_stop, hv, tcpVars, rd, cacheVars,
                   dbVars, callVars, procVars, adminVars, lockVars>>

\* the acceptor of listener a registers the client and spawns handle_client
WsAdmit(a) ==
    /\ server_tasks[a].pc = "admit"
    /\ LET client_id == total_connections + 1
       IN /\ total_connections' = client_id
          /\ ws_connected_clients' =
                [ws_connected_clients EXCEPT ![client_id] =
                    [present |-> TRUE, subscribed_plcs |-> {}]]
          /\ client_tasks' = Append(client_tasks,
                                    [id |-> client_id, pc |-> "handshake",
                                     inbox |-> <<>>, responses |-> <<>>,
                                     unwanted |-> FALSE])
    /\ ws_active_connections' = ws_active_connections + 1
    /\ after_stop' = IF ws_state = "stopped"
                     THEN after_stop \cup {"admit"} ELSE after_stop
    /\ server_tasks' = [server_tasks EXCEPT ![a] = LoopHead(@)]
    /\ UNCHANGED <<sockets, lifeVars, feedVars, ws_harvesters, hv, tcpVars,
                   rd, cacheVars, dbVars, callVars, procVars, adminVars, lockVars>>

\* handle_client: accept_async(stream).await? -- a failed handshake returns
\* before the teardown at the end of the function
WsHandshake(c, ok) ==
    /\ client_tasks[c].pc = "handshake"
    /\ client_tasks' = [client_tasks EXCEPT ![c] =
                           IF ok THEN [@ EXCEPT !.pc = "live"]
                           ELSE [@ EXCEPT !.pc = "failed", !.inbox = <<>>]]
    /\ UNCHANGED <<ws_connected_clients, ws_active_connections, lifeVars,
                   acceptVars, feedVars, ws_harvesters, after_stop, hv,
                   tcpVars, rd, cacheVars, dbVars, callVars, procVars, adminVars, lockVars>>

\* the "SUBSCRIBE_ACK" response: "plcs" lists the strings of plc_ips
SubscribeAck(plcs) == [type |-> "SUBSCRIBE_ACK", success |-> TRUE, plcs |-> plcs]

\* receive_task of client c reads SUBSCRIBE_PLCS with plc_ips = plcs: the
\* subscription is cleared and filled with plcs if get_mut finds the client
\* in connected_clients, and the response is sent to the client's channel in
\* both cases
WsSubscribe(c, plcs) ==
    /\ client_tasks[c].pc = "live"
    /\ Len(client_tasks[c].responses) < MaxResponses
    /\ ws_connected_clients' =
          IF ws_connected_clients[client_tasks[c].id].present
          THEN [ws_connected_clients EXCEPT
                   ![client_tasks[c].id].subscribed_plcs = plcs]
          ELSE ws_connected_clients
    /\ client_tasks' = [client_tasks EXCEPT
                           ![c].responses = Append(@, SubscribeAck(plcs))]
    /\ UNCHANGED <<ws_active_connections, lifeVars, acceptVars,
                   feedVars, ws_harvesters, after_stop, hv, tcpVars, rd,
                   cacheVars, dbVars, callVars, procVars, adminVars, lockVars>>

\* which of the two tasks of the session of a client task still run
SendTaskRuns(t) == t.pc \in {"live", "sender"}
ReceiveTaskRuns(t) == t.pc \in {"live", "receiver"}

\* handle_client after its select!: the first of send_task and receive_task
\* that ends lets the teardown run; the other task is not aborted (its
\* JoinHandle is dropped) and runs on by itself
AfterTaskEnds(t, ended) ==
    IF t.pc = "live"
    THEN [t EXCEPT !.pc = IF ended = "send_task" THEN "receiver" ELSE "sender"]
    ELSE [t EXCEPT !.pc = "closed"]

\* connected_clients.remove(&client_id); active_connections.fetch_sub(1)
Teardown(c) ==
    IF client_tasks[c].pc = "live"
    THEN /\ ws_connected_clients' =
               [ws_connected_clients EXCEPT ![client_tasks[c].id] = NoClient]
         /\ ws_active_connections' = ws_active_connections - 1
    ELSE UNCHANGED <<ws_connected_clients, ws_active_connections>>

\* send_task ends (a write to the socket failed): what it held is dropped
SendTaskEnds(t) ==
    [AfterTaskEnds(t, "send_task") EXCEPT !.inbox = <<>>, !.responses = <<>>]

\* send_task of client c takes a response from the channel and writes it to
\* the socket; the write succeeds or fails
WsRespond(c, ok) ==
    /\ SendTaskRuns(client_tasks[c])
    /\ client_tasks[c].responses # <<>>
    /\ IF ok
       THEN /\ client_tasks' = [client_tasks EXCEPT ![c].responses = Tail(@)]
            /\ UNCHANGED <<ws_connected_clients, ws_active_connections>>
       ELSE /\ client_tasks' = [client_tasks EXCEPT ![c] = SendTaskEnds(@)]
            /\ Teardown(c)
    /\ UNCHANGED <<lifeVars, acceptVars, feedVars, ws_harvesters, after_stop,
                   hv, tcpVars, rd, cacheVars, dbVars, callVars, procVars,
                   adminVars, lockVars>>

\* send_task of client c takes a broadcast message and writes it to the
\* socket; the write succeeds or fails. History: `unwanted` records a message
\* of a PLC outside the subscription set that was pushed and sent under that
\* same set
WsForward(c, ok) ==
    /\ SendTaskRuns(client_tasks[c])
    /\ client_tasks[c].inbox # <<>>
    /\ IF ok
       THEN /\ LET message == Head(client_tasks[c].inbox)
               IN client_tasks' =
                     [client_tasks EXCEPT
                         ![c].inbox = Tail(@),
                         ![c].unwanted =
                             @ \/ (/\ SubscribedPlcs(c) # {}
                                   /\ message.subscribed_plcs = SubscribedPlcs(c)
                                   /\ message.origin \notin SubscribedPlcs(c))]
            /\ UNCHANGED <<ws_connected_clients, ws_active_connections>>
       ELSE /\ client_tasks' = [client_tasks EXCEPT ![c] = SendTaskEnds(@)]
            /\ Teardown(c)
    /\ UNCHANGED <<lifeVars, acceptVars, feedVars, ws_harvesters, after_stop,
                   hv, tcpVars, rd, cacheVars, dbVars, callVars, procVars,
                   adminVars, lockVars>>

\* receive_task of client c ends: it read a Close frame or an error, or the
\* stream ended
WsClose(c) ==
    /\ ReceiveTaskRuns(client_tasks[c])
    /\ client_tasks' = [client_tasks EXCEPT
                           ![c] = AfterTaskEnds(@, "receive_task")]
    /\ Teardown(c)
    /\ UNCHANGED <<lifeVars, acceptVars, feedVars, ws_harvesters, after_stop,
                   hv, tcpVars, rd, cacheVars, dbVars, callVars, procVars, adminVars, lockVars>>

NextWs ==
    \/ WsStart
    \/ WsStop
    \/ WsReload
    \/ \E v \in FrameValues : WsPublish(v)
    \/ \E p \in DOMAIN consumers : ConsumerRecv(p)
    \/ \E h \in Harvesters : HarvesterTurn(h)
    \/ \E a \in Listeners : WsAccept(a, MaxFeedSockets)
    \/ \E a \in Listeners : WsAdmit(a)
    \/ \E c \in DOMAIN client_tasks : \E ok \in BOOLEAN : WsHandshake(c, ok)
    \/ \E c \in DOMAIN client_tasks : \E plcs \in SubscriptionInputs :
          WsSubscribe(c, plcs)
    \/ \E c \in DOMAIN client_tasks : \E ok \in BOOLEAN : WsForward(c, ok)
    \/ \E c \in DOMAIN client_tasks : \E ok \in BOOLEAN : WsRespond(c, ok)
    \/ \E c \in DOMAIN client_tasks : WsClose(c)

\* the clients of a server that no PLC feeds: nothing is published, the
\* harvesters find nothing to send
NextClients ==
    \/ WsStart
    \/ WsStop
    \/ \E a \in Listeners : WsAccept(a, MaxSockets)
    \/ \E a \in Listeners : WsAdmit(a)
    \/ \E c \in DOMAIN client_tasks : \E ok \in BOOLEAN : WsHandshake(c, ok)
    \/ \E c \in DOMAIN client_tasks : \E plcs \in SubscriptionInputs :
          WsSubscribe(c, plcs)
    \/ \E c \in DOMAIN client_tasks : \E ok \in BOOLEAN : WsRespond(c, ok)
    \/ \E c \in DOMAIN client_tasks : WsClose(c)

-----------------------------------------------------------------------------
(* The atomic cache processor and the memory limits of SmartCache *)

\* SmartCache::new
cache_size_limit == 2000
memory_pressure_threshold == 1500
\* packets between two tests of should_cleanup
CleanupEveryPackets == 50
\* seconds between two sweeps
CleanupMinSecs == 30
\* seconds between two refreshes of a PLC's tag definitions
CacheRefreshSecs == 60

\* PLCs that feed the cache, and enabled tag rows of each
NumPlcs == 97
TagsPerPlc == 25
\* packets the processor receives from two PLCs in one behaviour
MaxPackets == 4
\* seconds that pass in one step of the processor's clock, and the age at
\* which the elapsed times saturate
ProcTick == 31
MaxAge == 61
\* steps of the clock while two PLCs send
MaxTicks == 3

Plc(k) == "P" \o ToString(k)

\* the j-th enabled TagMapping row of a PLC; variable_path is unique within
\* a PLC (UNIQUE(plc_ip, variable_path))
ProcTag(j) ==
    [tag_name |-> "T" \o ToString(j),
     variable_path |-> <<"W[" \o ToString(j - 1) \o "]">>,
     starts_db |-> FALSE,
     collect_mode |-> Some(IF j % 2 = 0 THEN "change" ELSE "interval"),
     collect_interval_s |-> Some(1)]

\* get_active_tags of a PLC with n enabled rows
ActiveTags(n) == [j \in 1..n |-> ProcTag(j)]

\* the parsed frame of a PLC whose schema is WORD x TagsPerPlc, every
\* element holding the value v
ProcFrame(v) ==
    [j \in 1..TagsPerPlc |->
        [name |-> "W[" \o ToString(j - 1) \o "]", value |-> v,
         data_type |-> "WORD"]]

\* the keys of the tags of n PLCs, in one order
KeyOrder(n) ==
    [i \in 1..(n * TagsPerPlc) |->
        TagKey(Plc((i - 1) \div TagsPerPlc + 1),
               ProcTag(((i - 1) % TagsPerPlc) + 1).tag_name)]

Reversed(seq) == [i \in 1..Len(seq) |-> seq[Len(seq) + 1 - i]]

\* tag_cache.iter() visits the entries in an order the map chooses
IterationOrders(n) == {KeyOrder(n), Reversed(KeyOrder(n))}

NoTags == [present |-> FALSE, tags |-> <<>>]
NoProcessor == [pc |-> "off"]
NoTagDb == [rows |-> <<>>, failures_left |-> 0, changes_left |-> 0]

\* no cache processor is followed
InitProcessorOff ==
    /\ processor = NoProcessor
    /\ tag_mappings_cache = <<>>
    /\ last_cleanup = 0
    /\ tag_db = NoTagDb

\* the processor of a started server waits for its first update; either
\* NumPlcs PLCs send the same frame over and over, until the second test of
\* should_cleanup has passed, while the Schema Store works and keeps its
\* rows and ProcTick seconds pass once, or two PLCs send MaxPackets frames
\* of two values while the Schema Store may fail once and lose a row once
InitProcessor ==
    /\ \E many \in BOOLEAN :
          LET n == IF many THEN NumPlcs ELSE 2
          IN /\ processor = [pc |-> "recv",
                             packets_processed |-> 0,
                             max_packets |->
                                 IF many THEN 2 * CleanupEveryPackets + 1
                                 ELSE MaxPackets,
                             ticks_left |-> IF many THEN 1 ELSE MaxTicks,
                             last_cache_refresh |-> 0,
                             values |-> IF many THEN {"5"} ELSE FrameValues,
                             refresh |-> "none",
                             plc |-> 0,
                             value |-> NoValue]
             /\ tag_mappings_cache = [k \in 1..n |-> NoTags]
             /\ tag_db = [rows |-> [k \in 1..n |-> ActiveTags(TagsPerPlc)],
                          failures_left |-> IF many THEN 0 ELSE 1,
                          changes_left |-> IF many THEN 0 ELSE 1]
             /\ tag_cache = [key \in {KeyOrder(n)[i] :
                                         i \in 1..(n * TagsPerPlc)} |-> NoEntry]
             /\ change_tracking = [key \in {KeyOrder(n)[i] :
                                         i \in 1..(n * TagsPerPlc)} |-> NoValue]
    /\ last_cleanup = 0
    /\ now = Epoch
    /\ emitted = [k \in Keys |-> NoEmission]
    /\ fresh = [k \in Keys |-> {}]

\* tag_cache.len()
CacheSize(cache) == Cardinality({key \in DOMAIN cache : cache[key].present})

\* a load that forgets the cached list when the Schema Store fails
LoadForgetsOnError(cached, k, rows, db_ok) ==
    IF db_ok THEN [cached EXCEPT ![k] = [present |-> TRUE, tags |-> rows[k]]]
    ELSE [cached EXCEPT ![k] = NoTags]

\* load_tag_mappings_to_cache for PLC k (tag_mappings_last_update, which
\* nothing reads, is not kept)
LoadTagMappingsToCache(cached, k, rows, db_ok) ==
    IF db_ok THEN [cached EXCEPT ![k] = [present |-> TRUE, tags |-> rows[k]]]
    ELSE cached

\* should_cleanup
ShouldCleanup(cache, cleanup_age) ==
    /\ CacheSize(cache) > memory_pressure_threshold
    /\ cleanup_age >= CleanupMinSecs

RECURSIVE SortedTimes(_)
SortedTimes(S) ==
    IF S = {} THEN <<>>
    ELSE LET m == CHOOSE x \in S : \A y \in S : x <= y
         IN <<m>> \o SortedTimes(S \ {m})

\* entries_by_age after sort_by_key, a stable sort of the iteration order
RECURSIVE EntriesByAge(_, _, _)
EntriesByAge(cache, order, times) ==
    IF times = <<>> THEN <<>>
    ELSE LET At(key) == cache[key].present
                        /\ cache[key].last_sent = Head(times)
         IN SelectSeq(order, At) \o EntriesByAge(cache, order, Tail(times))

\* entries_to_remove of enforce_memory_limits, for current_size above the
\* limit
EntriesToRemove(current_size) ==
    Min(current_size - cache_size_limit + current_size \div 5,
        current_size \div 2)

\* enforce_memory_limits: the new (tag_cache, change_tracking) and the value
\* returned
EnforceMemoryLimits(cache, tracking, order) ==
    LET current_size == CacheSize(cache)
        entries_to_remove == EntriesToRemove(current_size)
        times == {cache[key].last_sent :
                     key \in {q \in DOMAIN cache : cache[q].present}}
        by_age == EntriesByAge(cache, order, SortedTimes(times))
        removed == {by_age[i] : i \in 1..entries_to_remove}
    IN IF current_size <= cache_size_limit
       THEN [cache |-> cache, tracking |-> tracking, cleaned |-> FALSE]
       ELSE [cache |-> [key \in DOMAIN cache |->
                           IF key \in removed THEN NoEntry ELSE cache[key]],
             tracking |-> [key \in DOMAIN tracking |->
                              IF key \in removed THEN NoValue
                              ELSE tracking[key]],
             cleaned |-> TRUE]

\* the largest tag_cache.len() a call of enforce_memory_limits starts from
MaxCacheLen == 5000

\* a call of enforce_memory_limits on a cache of current_size entries
InitLimitsCall ==
    \E current_size \in 0..MaxCacheLen :
        limits_call = [pc |-> "called", current_size |-> current_size,
                       cleaned |-> FALSE, len |-> current_size]

\* enforce_memory_limits seen through tag_cache.len(): the keys of
\* entries_by_age are distinct keys of the cache, so that every remove of
\* the loop over take(entries_to_remove) takes one entry away
EnforceMemoryLimitsReturns ==
    /\ limits_call.pc = "called"
    /\ LET current_size == limits_call.current_size
           removed == Min(EntriesToRemove(current_size), current_size)
       IN limits_call' =
             IF current_size <= cache_size_limit
             THEN [limits_call EXCEPT !.pc = "returned", !.cleaned = FALSE]
             ELSE [limits_call EXCEPT !.pc = "returned", !.cleaned = TRUE,
                                      !.len = current_size - removed]
    /\ UNCHANGED <<tcpVars, rd, cacheVars, wsVars, dbVars, parse_call,
                   update_call, broadcast_call, procVars, adminVars,
                   lockVars>>

NextLimitsCall == EnforceMemoryLimitsReturns

\* the PLC whose update the processor receives next: the PLCs send in turn
NextPlc == (processor.packets_processed % Len(tag_db.rows)) + 1

\* one turn of the loop of the processor: recv() returns the update of a
\* PLC, the refresh of its tag definitions when due, the sweep when due, and
\* update_from_tcp with the cached definitions
CacheProcessorRecv(db_ok, value, order) ==
    /\ processor.pc = "recv"
    /\ processor.packets_processed < processor.max_packets
    /\ LET k == NextPlc
             packets_processed == processor.packets_processed + 1
             due == processor.last_cache_refresh > CacheRefreshSecs
             refreshed ==
                 IF due
                 THEN LoadTagMappingsToCache(tag_mappings_cache, k,
                                             tag_db.rows, db_ok)
                 ELSE tag_mappings_cache
             sweep == /\ packets_processed % CleanupEveryPackets = 0
                      /\ ShouldCleanup(tag_cache, last_cleanup)
             swept == IF sweep
                      THEN EnforceMemoryLimits(tag_cache, change_tracking,
                                               order)
                      ELSE [cache |-> tag_cache,
                            tracking |-> change_tracking,
                            cleaned |-> FALSE]
             miss == ~refreshed[k].present
             loaded ==
                 IF miss
                 THEN LoadTagMappingsToCache(refreshed, k, tag_db.rows,
                                             db_ok)
                 ELSE refreshed
             c == UpdateTags([cache |-> swept.cache,
                              tracking |-> swept.tracking],
                             Plc(k), ProcFrame(value), loaded[k].tags, 1)
         IN \* the Schema Store can fail only when it is asked, the order of
            \* iteration matters only to a sweep
            /\ db_ok \/ ((due \/ miss) /\ tag_db.failures_left > 0)
            /\ sweep \/ order = KeyOrder(Len(tag_db.rows))
            /\ processor' =
                  [processor EXCEPT
                      !.packets_processed = packets_processed,
                      !.last_cache_refresh = IF due THEN 0 ELSE @,
                      !.refresh = IF ~due THEN "none"
                                  ELSE IF db_ok THEN "ok" ELSE "failed",
                      !.plc = k,
                      !.value = value]
            /\ tag_mappings_cache' = loaded
            /\ last_cleanup' = IF swept.cleaned THEN 0 ELSE last_cleanup
            /\ tag_cache' = c.cache
            /\ change_tracking' = c.tracking
            /\ tag_db' = [tag_db EXCEPT
                             !.failures_left =
                                 IF ~db_ok /\ (due \/ miss) THEN @ - 1
                                 ELSE @]
    /\ UNCHANGED <<now, emitted, fresh, tcpVars, rd, wsVars, dbVars,
                   callVars, adminVars, lockVars>>

\* recv() returns an update after the server was stopped: break
CacheProcessorEnds ==
    /\ processor.pc = "recv"
    /\ processor' = [processor EXCEPT !.pc = "ended"]
    /\ UNCHANGED <<tag_mappings_cache, last_cleanup, tag_db, cacheVars,
                   tcpVars, rd, wsVars, dbVars, callVars, adminVars, lockVars>>

\* time passes between two updates
ProcessorTick ==
    /\ processor.pc = "recv"
    /\ processor.ticks_left > 0
    /\ processor.last_cache_refresh < MaxAge \/ last_cleanup < MaxAge
    /\ processor' = [processor EXCEPT
                        !.last_cache_refresh = Min(@ + ProcTick, MaxAge),
                        !.ticks_left = @ - 1]
    /\ last_cleanup' = Min(last_cleanup + ProcTick, MaxAge)
    /\ UNCHANGED <<tag_mappings_cache, tag_db, cacheVars, tcpVars, rd, wsVars,
                   dbVars, callVars, adminVars, lockVars>>

\* delete_tag_mapping removes the last row of PLC k
DeleteTagMapping(k) ==
    /\ processor.pc = "recv"
    /\ tag_db.changes_left > 0
    /\ tag_db.rows[k] # <<>>
    /\ tag_db' = [tag_db EXCEPT
                     !.rows[k] = SubSeq(@, 1, Len(@) - 1),
                     !.changes_left = @ - 1]
    /\ UNCHANGED <<processor, tag_mappings_cache, last_cleanup, cacheVars,
                   tcpVars, rd, wsVars, dbVars, callVars, adminVars, lockVars>>

NextProcessor ==
    \/ \E db_ok \in BOOLEAN :
         \E value \in processor.values :
            \E order \in IterationOrders(Len(tag_db.rows)) :
               CacheProcessorRecv(db_ok, value, order)
    \/ CacheProcessorEnds
    \/ ProcessorTick
    \/ \E k \in DOMAIN tag_db.rows : DeleteTagMapping(k)

-----------------------------------------------------------------------------
(* Specifications *)

\* a constructed TcpServer, no reader followed in detail, an empty cache
\* every component at rest, outside any parser call
InitRest ==
    /\ InitTcp
    /\ rd = RdIdle
    /\ plc_structure = NoStructure
    /\ InitCache
    /\ InitHarvest
    /\ InitWs
    /\ InitProcessorOff
    /\ last_call = NoCall
    /\ InitLocksOff

InitAll ==
    /\ InitRest
    /\ parse_call = NoParseCall
    /\ update_call = NoUpdateCall
    /\ InitCallsOff

\* the TCP ingestion engine; reader framing and cache at rest
SpecTcp == InitAll /\ [][NextTcp]_vars

\* the TcpServer as an object: start_server and stop_server called again
\* and again on it
SpecTcpRestart == InitAll /\ [][NextTcpRestart]_vars

\* the reader of the first accepted connection of a running server
InitReaderTcp ==
    /\ is_running = TRUE
    /\ server_state = "some"
    /\ active_connections = 1
    /\ connected_clients = <<"A1">>
    /\ connection_handles = [ip \in IPs |-> IF ip = "A1" THEN 1 ELSE 0]
    /\ unique_plcs = {"A1"}
    /\ blacklisted_ips = {}
    /\ ip_to_id = [ip \in IPs |-> IF ip = "A1" THEN 1 ELSE 0]
    /\ connection_health = [ip \in IPs |-> IF ip = "A1" THEN Health(1, 1)
                                                         ELSE NoHealth]
    /\ next_id = 2
    /\ acceptor = [NoAcceptor EXCEPT !.pc = "accept"]
    /\ watchdog = [NoWatchdog EXCEPT !.pc = "tick"]
    /\ tasks = <<[ip |-> "A1", conn_id |-> 1, pc |-> "reading",
                  cancelled |-> FALSE, decs |-> 0, by_stop |-> FALSE]>>
    /\ admin = NoAdmin
    /\ first_id = [ip \in IPs |-> IF ip = "A1" THEN 1 ELSE 0]

InitReaderSpec ==
    /\ InitReaderTcp
    /\ InitReader
    /\ InitCache
    /\ InitHarvest
    /\ InitWs
    /\ InitProcessorOff
    /\ last_call = NoCall
    /\ InitLocksOff
    /\ parse_call = NoParseCall
    /\ update_call = NoUpdateCall
    /\ InitCallsOff

SpecReader == InitReaderSpec /\ [][NextReader]_vars

\* the same reader when its accumulator is about to reach
\* MAX_ACCUMULATOR_SIZE
InitReaderFullSpec ==
    /\ InitReaderTcp
    /\ \E room \in 0..MaxRead :
          /\ plc_structure = HugeSchema
          /\ rd = RdNearlyFull(room)
    /\ InitCache
    /\ InitHarvest
    /\ InitWs
    /\ InitProcessorOff
    /\ last_call = NoCall
    /\ InitLocksOff
    /\ parse_call = NoParseCall
    /\ update_call = NoUpdateCall
    /\ InitCallsOff

\* the PLC goes on sending without a pause
NextReaderFull ==
    \/ ReaderLoopTop
    \/ \E chunk \in ReadChunks, ack_ok \in BOOLEAN :
          ReaderReadData(chunk, ack_ok, 0)

SpecReaderFull == InitReaderFullSpec /\ [][NextReaderFull]_vars

\* the smart cache with its updater and harvesters
SpecCache == InitAll /\ [][NextCache]_vars

\* the smart cache with harvest calls that overlap (the harvesters are
\* separate tasks of a multi-threaded runtime)
SpecHarvest == InitAll /\ [][NextHarvest]_vars

\* the harvesters are periodic tasks that run for ever: each goes on calling
\* get_tags_for_broadcast, and a call that has begun ends; the PLC sends
\* frames or not
HarvestersRun ==
    \A h \in Harvesters :
        /\ SF_vars(\E i \in HarvestIntervals(h) : HarvestSelect(h, i))
        /\ WF_vars(HarvestUpdate(h))

SpecHarvestFair == SpecHarvest /\ HarvestersRun

\* the WebSocket server: its life cycle, acceptors, clients, cache
\* processors and harvesters, fed by published frames
SpecWs == InitAll /\ [][NextWs]_vars

\* the WebSocket server and its clients without traffic of the PLCs
SpecClients == InitAll /\ [][NextClients]_vars

InitParserSpec ==
    /\ InitRest
    /\ InitParser
    /\ update_call = NoUpdateCall
    /\ InitCallsOff

\* calls of parse_with_config on every schema and payload of the bounds
SpecParser == InitParserSpec /\ [][NextParser]_vars

InitParserShortSpec ==
    /\ InitRest
    /\ InitParserShort
    /\ update_call = NoUpdateCall
    /\ InitCallsOff

InitUpdateCallSpec ==
    /\ InitRest
    /\ parse_call = NoParseCall
    /\ InitUpdateCall
    /\ InitCallsOff

\* runs of the loop body of update_from_tcp for a tag that addresses a bit
SpecUpdateCall == InitUpdateCallSpec /\ [][NextUpdateCall]_vars

InitBroadcastCallSpec ==
    /\ InitRest
    /\ parse_call = NoParseCall
    /\ update_call = NoUpdateCall
    /\ InitBroadcastCall
    /\ limits_call = NoLimitsCall

\* calls of get_tags_for_broadcast on a cache that the frames of two PLCs
\* fill
SpecBroadcastCall == InitBroadcastCallSpec /\ [][NextBroadcastCall]_vars

InitLimitsCallSpec ==
    /\ InitRest
    /\ parse_call = NoParseCall
    /\ update_call = NoUpdateCall
    /\ broadcast_call = NoBroadcastCall
    /\ InitLimitsCall

\* calls of enforce_memory_limits on caches of every size
SpecLimitsCall == InitLimitsCallSpec /\ [][NextLimitsCall]_vars

\* calls of parse_with_config on payloads shorter than the schema
SpecParserShort == InitParserShortSpec /\ [][NextParser]_vars

\* the cache processor of a started server, without the harvesters
InitProcessorSpec ==
    /\ InitTcp
    /\ rd = RdIdle
    /\ plc_structure = NoStructure
    /\ InitHarvest
    /\ InitWs
    /\ InitProcessor
    /\ last_call = NoCall
    /\ InitLocksOff
    /\ parse_call = NoParseCall
    /\ update_call = NoUpdateCall
    /\ InitCallsOff

SpecProcessor == InitProcessorSpec /\ [][NextProcessor]_vars

\* the operations of a started TcpServer as sequences of lock acquisitions
InitLocksSpec ==
    /\ InitTcp
    /\ rd = RdIdle
    /\ plc_structure = NoStructure
    /\ InitCache
    /\ InitHarvest
    /\ InitWs
    /\ InitProcessorOff
    /\ last_call = NoCall
    /\ InitLocks
    /\ parse_call = NoParseCall
    /\ update_call = NoUpdateCall
    /\ InitCallsOff

SpecLocks == InitLocksSpec /\ [][NextLocks]_vars

\* the commands that start the two servers and that administer the PLCs
\* of the TCP server, on a new TcpServer or on one with a connection
NextAdmin ==
    \/ \E bind_ok \in BOOLEAN : StartTcpServer(bind_ok)
    \/ StopServer
    \/ \E ip \in IPs : DisconnectBlacklist(ip)
    \/ DisconnectTeardown
    \/ \E ip \in IPs : AllowPlcReconnect(ip)
    \/ \E bound \in SUBSET Listeners : StartWebsocketServer(bound)
    \/ WsStop

InitAdminSpec ==
    /\ InitTcp \/ InitReaderTcp
    /\ rd = RdIdle
    /\ plc_structure = NoStructure
    /\ InitCache
    /\ InitHarvest
    /\ InitWs
    /\ InitProcessorOff
    /\ last_call = NoCall
    /\ InitLocksOff
    /\ parse_call = NoParseCall
    /\ update_call = NoUpdateCall
    /\ InitCallsOff

SpecAdmin == InitAdminSpec /\ [][NextAdmin]_vars

Spec == SpecTcp

-----------------------------------------------------------------------------
(* Properties of the TCP ingestion engine (SpecTcp) *)

\* no task is in the middle of a bookkeeping step
Quiescent ==
    /\ acceptor.pc \in {"none", "accept"}
    /\ watchdog.pc \in {"none", "tick"}
    /\ admin.pc = "idle"
    /\ \A t \in DOMAIN tasks : tasks[t].pc # "returned"

Handles == {ip \in IPs : connection_handles[ip] # 0}
LiveReaders == {t \in DOMAIN tasks : Live(t)}
LiveReadersOf(ip) == {t \in LiveReaders : tasks[t].ip = ip}
Occurrences(clients, ip) == Len(SelectSeq(clients, LAMBDA c : c = ip))

\* C1: while the server runs and no bookkeeping step is in progress,
\* active_connections equals the number of entries of connection_handles and
\* the number of live reader tasks.
C1_CounterMatchesConnections ==
    (server_state = "some" /\ Quiescent) =>
        /\ active_connections = Cardinality(Handles)
        /\ active_connections = Cardinality(LiveReaders)

\* C2: every connection accepted from an identity carries the id the identity
\* was given on its first accept.
C2_StableId ==
    \A t \in DOMAIN tasks :
        /\ first_id[tasks[t].ip] # 0
        /\ tasks[t].conn_id = first_id[tasks[t].ip]

\* an identity has reconnected after its first connection was ended, while
\* ids have been handed out
C2_Reconnected ==
    \E t1, t2 \in DOMAIN tasks :
        /\ t1 < t2
        /\ tasks[t1].ip = tasks[t2].ip
        /\ tasks[t1].pc \in {"done", "aborted"}
        /\ tasks[t2].pc = "reading"
        /\ next_id > 1

\* C3: active_connections is decremented at most once for a connection, and
\* exactly once for every connection that has ended (other than by
\* stop_server, which resets the counter).
C3_TornDownOnce ==
    \A t \in DOMAIN tasks :
        /\ tasks[t].decs <= 1
        /\ (tasks[t].pc \in {"done", "aborted"} /\ ~tasks[t].by_stop)
              => tasks[t].decs = 1

\* C4: per identity there is at most one live reader task and at most one
\* entry of connected_clients.
C4_OnePerIdentity ==
    \A ip \in IPs :
        /\ Cardinality(LiveReadersOf(ip)) <= 1
        /\ Occurrences(connected_clients, ip) <= 1

\* C5: once disconnect_client(ip) has returned and until allow_reconnect(ip),
\* there is no connection from ip: no handle and no reader reading its socket.
C5_BlacklistedHasNoConnection ==
    \A ip \in blacklisted_ips :
        ~(admin.pc = "teardown" /\ admin.ip = ip) =>
            /\ connection_handles[ip] = 0
            /\ \A t \in DOMAIN tasks :
                  tasks[t].ip = ip => tasks[t].pc # "reading"

\* C18: once stop_server has returned and the tasks it cancelled in the
\* middle of a step have stopped, the acceptor, the watchdog and every reader
\* have ended, the handle map, the health map and the connected list are
\* empty, and active_connections is 0.
C18_StoppedMeansEnded ==
    (/\ server_state = "stopped"
     /\ ~acceptor.cancelled
     /\ ~watchdog.cancelled
     /\ \A t \in DOMAIN tasks : ~tasks[t].cancelled)
        => /\ acceptor.pc = "none"
           /\ watchdog.pc = "none"
           /\ \A t \in DOMAIN tasks : tasks[t].pc \in {"done", "aborted"}
           /\ Handles = {}
           /\ \A ip \in IPs : connection_health[ip] = NoHealth
           /\ connected_clients = <<>>
           /\ active_connections = 0

-----------------------------------------------------------------------------
(* Properties of the reader (SpecReader) *)

\* the frames published when every frame of the stream arrives in one read
RECURSIVE OneFramePerRead(_, _)
OneFramePerRead(stream, config) ==
    IF config.total_size = 0 \/ Len(stream) < config.total_size THEN <<>>
    ELSE <<ParsePlcDataCached(SubSeq(stream, 1, config.total_size), config)>>
         \o OneFramePerRead(SubSeq(stream, config.total_size + 1, Len(stream)),
                            config)

\* C6: when the bytes read so far are whole frames of the schema's size and no
\* read has timed out, the published frames are those of one frame per read,
\* however the bytes were split into reads.
C6_PartitionIndependent ==
    (/\ rd.pc # "off"
     /\ ~rd.waited
     /\ Len(rd.delivered) % rd.config.total_size = 0)
        => rd.published = OneFramePerRead(rd.delivered, rd.config)

\* one read that returned n bytes: nothing is published while the total stays
\* below the expected size, one frame is published and the accumulator
\* emptied when the total reaches it; no other step publishes
FramingStep ==
    LET n == Len(rd'.delivered) - Len(rd.delivered)
    IN IF n > 0
       THEN IF Len(rd.accumulator) + n < rd.expected_size.size
            THEN /\ rd'.published = rd.published
                 /\ Len(rd'.accumulator) = Len(rd.accumulator) + n
            ELSE /\ Len(rd'.published) = Len(rd.published) + 1
                 /\ rd'.accumulator = <<>>
       ELSE rd'.published = rd.published

\* C7: with an expected size E the accumulator always holds fewer than E
\* bytes, no frame is published by a read that leaves the total below E, and
\* the read that brings the total to E publishes exactly one frame and leaves
\* the accumulator empty.
C7_PublishAtExpectedSize ==
    /\ [](rd.pc # "off" => Len(rd.accumulator) < rd.expected_size.size)
    /\ [][rd.pc # "off" => FramingStep]_vars

\* a frame of two or more bytes has arrived in 1-byte reads and was published
\* once, by the last of them
C7_ByteWiseFrame ==
    /\ rd.pc # "off"
    /\ rd.reads = rd.expected_size.size
    /\ Len(rd.delivered) = rd.reads
    /\ Len(rd.published) = 1
    /\ rd.accumulator = <<>>

\* C8: the reader has written no byte to the socket.
C8_NothingWritten == rd.pc # "off" => rd.written = 0

\* C16: every frame is framed with the total size of the schema stored at the
\* time and parsed with that schema, also when the schema was saved or deleted
\* while the connection was open.
C16_FramedWithStoredSchema ==
    [][(rd.pc = "read" /\ Len(rd'.published) > Len(rd.published)) =>
          /\ rd.expected_size.size = plc_structure.total_size
          /\ rd.config = plc_structure]_vars

\* C17: a connection that has delivered a frame is not open any more when
\* more than 16 s have passed since its last frame.
C17_EndedWithin16Seconds ==
    (rd.pc \in {"top", "read"} /\ rd.published # <<>>) => rd.valid_idle <= 16

\* a reader ends with Timeout exactly when three read timeouts occurred
\* consecutively
C23_TimeoutIffThreeTimeouts ==
    rd.pc # "off"
    => ((rd.pc = "ended" /\ rd.result = "Timeout")
        <=> rd.consecutive_timeouts >= 3)

\* C23: a reader ends with Timeout when the third consecutive read timeout
\* occurs or when, at the top of its loop, more than INACTIVITY_TIMEOUT_SECS
\* have passed since the last valid packet, and in no other case; one or two
\* consecutive read timeouts leave the reader running, and a read that
\* returns data resets the count to zero.
C23_TimeoutAfterThreeOrInactivity ==
    [][/\ (rd.pc # "ended" /\ rd'.pc = "ended" /\ rd'.result = "Timeout")
          => \/ rd.pc = "read" /\ rd.consecutive_timeouts = 2
                /\ rd'.consecutive_timeouts = 3
             \/ rd.pc = "top" /\ rd.valid_idle > INACTIVITY_TIMEOUT_SECS
       /\ (rd.pc = "read" /\ rd'.consecutive_timeouts = rd.consecutive_timeouts + 1)
          => IF rd.consecutive_timeouts = 2
             THEN rd'.pc = "ended" /\ rd'.result = "Timeout"
             ELSE rd'.pc = "top"
       /\ rd'.reads > rd.reads => rd'.consecutive_timeouts = 0]_vars

\* a reader that had read data ended with Timeout on its third consecutive
\* read timeout
C23_ThirdTimeoutEnded ==
    /\ rd.pc = "ended"
    /\ rd.result = "Timeout"
    /\ rd.consecutive_timeouts = 3
    /\ rd.reads > 0

\* C24: a reader whose PLC sends bytes that never complete a frame of the
\* expected size is not ended by the reader itself while the PLC keeps
\* sending: it ends with Timeout only after three consecutive read timeouts.
C24_MismatchKeepsConnection ==
    (/\ rd.pc = "ended"
     /\ rd.result = "Timeout"
     /\ rd.reads > 0
     /\ rd.published = <<>>)
    => rd.consecutive_timeouts >= 3

\* a read that would take the accumulator past MAX_ACCUMULATOR_SIZE empties
\* it, publishes nothing and leaves the reader in its loop; a read into an
\* empty accumulator that completes no frame leaves just its bytes there
DropStep ==
    LET n == Len(rd'.delivered) - Len(rd.delivered)
    IN /\ (n > 0 /\ Len(rd.accumulator) + n > MAX_ACCUMULATOR_SIZE)
          => /\ rd'.accumulator = <<>>
             /\ rd'.published = rd.published
             /\ rd'.pc = "top"
       /\ (n > 0 /\ rd.accumulator = <<>> /\ n < rd.expected_size.size)
          => rd'.accumulator
               = SubSeq(rd'.delivered, Len(rd.delivered) + 1,
                        Len(rd'.delivered))

\* C25: the accumulator never holds more than MAX_ACCUMULATOR_SIZE (64 KiB)
\* bytes: a read that would take it past that empties it, publishes no frame
\* and leaves the connection up, and the next read is accumulated into an
\* empty buffer.
C25_AccumulatorBounded ==
    /\ [](rd.pc # "off" => Len(rd.accumulator) <= MAX_ACCUMULATOR_SIZE)
    /\ [][rd.pc # "off" => DropStep]_vars

\* the accumulator was dropped at 64 KiB and the next read went into the
\* empty buffer, with no pause that could have cleared it otherwise
C25_ReadAfterDrop ==
    /\ rd.pc # "off"
    /\ ~rd.waited
    /\ Len(rd.delivered) > MAX_ACCUMULATOR_SIZE
    /\ rd.accumulator # <<>>
    /\ Len(rd.accumulator) < Len(rd.delivered) - MAX_ACCUMULATOR_SIZE
    /\ rd.published = <<>>

-----------------------------------------------------------------------------
(* Properties of the smart cache (SpecCache) *)

KeysOfMode(mode) ==
    {TagKey(CachePlc, TagMappings[i].tag_name) :
        i \in {j \in DOMAIN TagMappings :
                  TagMappings[j].collect_mode = Some(mode)}}

IntervalOf(k) ==
    LET i == CHOOSE j \in DOMAIN TagMappings :
                 TagKey(CachePlc, TagMappings[j].tag_name) = k
    IN UnwrapOr(TagMappings[i].collect_interval_s, 1)

\* C9: two successive emissions of an interval tag are at least its interval
\* apart.
C9_IntervalRespected ==
    \A k \in KeysOfMode("interval") :
        emitted[k].count >= 2 =>
            emitted[k].last_time - emitted[k].prev_time >= IntervalOf(k)

\* C10: a change tag is never emitted twice in a row with the same value, and
\* its changed flag is set exactly when the cached value differs from the
\* value last emitted (a value never emitted counts as changed).
C10_ChangedMeansDiffersFromSent ==
    \A k \in KeysOfMode("change") :
        /\ emitted[k].count >= 2 => emitted[k].last_value # emitted[k].prev_value
        /\ tag_cache[k].present =>
              (tag_cache[k].changed <=>
                  (emitted[k].count = 0 \/ tag_cache[k].value # emitted[k].last_value))


-----------------------------------------------------------------------------
(* Properties of the harvesters (SpecHarvest) *)

\* C11: a cache entry selected by one harvest call is not selected by another
\* call before the first has set its last_sent and cleared its changed flag.
C11_SelectedByOneCall ==
    \A h1, h2 \in Harvesters :
        h1 # h2 => hv[h1].keys_to_update \cap hv[h2].keys_to_update = {}

\* C12: a harvest call that returns a change tag with value V returns it after
\* the updater has resolved the tag to V in a frame applied since the tag was
\* last emitted.
C12_EmittedValueWasProcessed ==
    [][\A h \in Harvesters : \A k \in KeysOfMode("change") :
          (/\ hv[h].pc = "update"
           /\ hv'[h].pc = "idle"
           /\ k \in hv[h].keys_to_update)
             => hv[h].result[k] \in fresh[k]]_vars

\* the value the cache holds for k was not emitted: k was never emitted, or
\* its last emission carried another value
NotYetEmitted(k) ==
    /\ tag_cache[k].present
    /\ emitted[k].count = 0 \/ tag_cache[k].value # emitted[k].last_value

\* C34: every change of the value of a change tag that the updater processes
\* is eventually emitted by a harvester, with that value or a later one
C34_ChangeEventuallyEmitted ==
    \A k \in KeysOfMode("change") : NotYetEmitted(k) ~> ~NotYetEmitted(k)

\* C39: the counter of active WebSocket connections never drops below zero
\* (the AtomicU64 never wraps)
C39_CounterNeverWraps == ws_active_connections >= 0

\* C38: a call of disconnect_client that returns an error, because the ip has
\* no connection, does not add the ip to the blacklist
C38_FailedDisconnectKeepsBlacklist ==
    [][(DisconnectTeardown /\ connection_handles[admin.ip] = 0)
       => (admin.ip \in blacklisted_ips' => admin.was_blacklisted)]_vars

-----------------------------------------------------------------------------
(* Properties of the data type of a bit tag (SpecUpdateCall) *)

\* C37: a cache entry has the data type BOOL only if its value is "TRUE" or
\* "FALSE"; when the base variable of a bit path does not parse as an
\* unsigned integer and its value is kept verbatim, the entry keeps the data
\* type of the variable
C37_BoolOnlyForTruthValues ==
    (update_call.pc = "returned" /\ update_call.entry.present)
    => /\ update_call.entry.data_type = "BOOL"
          => update_call.entry.value \in {"TRUE", "FALSE"}
       /\ ~ParseU64(update_call.variables[1].value).ok
          => update_call.entry.data_type
                = update_call.variables[1].data_type

-----------------------------------------------------------------------------
(* Properties of get_tags_for_broadcast (SpecBroadcastCall) *)

\* C35: every cache entry that a call of get_tags_for_broadcast marks as sent
\* is in the map the call returns, under its tag_name and with its own value
C35_MarkedEntriesReturned ==
    broadcast_call.pc = "returned"
    => \A k \in broadcast_call.keys_to_update :
          LET cached == broadcast_call.cache[k]
          IN /\ cached.tag_name \in DOMAIN broadcast_call.result
             /\ broadcast_call.result[cached.tag_name] = cached.value

\* C36: a harvester emits a cached tag only if its collect_mode is "change",
\* or "interval" with an interval_s of 1 to 10
C36_OnlyCollectedModesEmitted ==
    broadcast_call.pc = "returned"
    => \A k \in broadcast_call.keys_to_update :
          LET cached == broadcast_call.cache[k]
          IN \/ cached.collect_mode = "change"
             \/ /\ cached.collect_mode = "interval"
                /\ cached.interval_s \in 1..10

-----------------------------------------------------------------------------
(* Properties of enforce_memory_limits (SpecLimitsCall) *)

\* C40: whenever enforce_memory_limits returns true the tag cache holds at
\* most cache_size_limit entries afterwards
C40_CleanedWithinLimit ==
    (limits_call.pc = "returned" /\ limits_call.cleaned)
    => limits_call.len <= cache_size_limit

-----------------------------------------------------------------------------
(* Properties of the WebSocket server (SpecWs) *)

LiveConsumers == {p \in DOMAIN consumers : consumers[p].pc = "recv"}

\* C13: at no time do two cache processors exist, and the updates applied to
\* the cache are those of one processor, each published frame at most once
\* and in the order of publication.
C13_SingleConsumer ==
    /\ Cardinality(LiveConsumers) <= 1
    /\ \A i, j \in DOMAIN applied :
          /\ applied[i].consumer = applied[j].consumer
          /\ i < j => applied[i].frame < applied[j].frame

\* C14: no client has been sent a broadcast message of a PLC outside its
\* subscription set while that set was not empty.
C14_OnlySubscribedOrigins ==
    \A c \in DOMAIN client_tasks : ~client_tasks[c].unwanted

Admitted == {id \in ClientIds : ws_connected_clients[id].present}

\* C15: the number of admitted clients (client records) never exceeds
\* max_clients.
C15_AtMostMaxClients == Cardinality(Admitted) <= max_clients

\* C19: after stop() has returned no acceptor has admitted a client, no
\* harvester has pushed a broadcast, no cache processor has applied an update,
\* and the client map is empty.
C19_NothingAfterStop ==
    ws_state = "stopped" => (after_stop = {} /\ Admitted = {})

-----------------------------------------------------------------------------
(* Properties of a restarted TcpServer (SpecTcpRestart) *)

\* C32: numeric ids are never reused: no two distinct identities of the
\* identity-to-id map hold the same id, whatever the sequence of start_server,
\* stop_server and accepts on the TcpServer
C32_IdsNeverReused ==
    \A a, b \in IPs :
        a # b /\ ip_to_id[a] # 0 /\ ip_to_id[b] # 0 => ip_to_id[a] # ip_to_id[b]

-----------------------------------------------------------------------------
(* Properties of the locks (SpecLocks) *)

\* the lock operation p waits for, "" if it waits for none
WaitsFor(p) ==
    IF lock_procs[p].cancelled THEN ""
    ELSE CASE lock_procs[p].pc \in {"want_handles", "insert"} ->
                 "connection_handles"
           [] lock_procs[p].pc = "want_clients" -> "connected_clients"
           [] OTHER -> ""

\* p waits for a lock that q holds
BlockedBy(p, q) == WaitsFor(p) # "" /\ lock_owner[WaitsFor(p)] = q

\* C33: disconnect_client, stop_server, the watchdog, the acceptor and the
\* exit cleanup of a connection task never deadlock on connected_clients and
\* connection_handles: no two of them wait for each other's lock
C33_NoDeadlock ==
    \A p, q \in LockProcs : ~(p # q /\ BlockedBy(p, q) /\ BlockedBy(q, p))

-----------------------------------------------------------------------------
(* Properties of the client commands (SpecWs) *)

\* C31: when the send task or the receive task of a client session ends, the
\* client is torn down: its record leaves the client map, the counter of
\* active connections goes down by one, once, and no message is written to
\* that client any more
C31_TornDownAndSilent ==
    [][\A c \in DOMAIN client_tasks :
          /\ (client_tasks[c].pc = "live" /\ client_tasks'[c].pc # "live") =>
                /\ ws_connected_clients'[client_tasks[c].id] = NoClient
                /\ ws_active_connections' = ws_active_connections - 1
          /\ client_tasks[c].pc \in {"sender", "receiver", "closed"} =>
                /\ ~WsForward(c, TRUE)
                /\ ~WsRespond(c, TRUE)
                /\ (WsForward(c, FALSE) \/ WsRespond(c, FALSE) \/ WsClose(c)) =>
                      ws_active_connections' = ws_active_connections]_vars

\* C30: after a client sends SUBSCRIBE_PLCS with plc_ips = S, that client's
\* subscription set is exactly S, no other client's subscription changes, and
\* one SUBSCRIBE_ACK listing S is queued to that client
C30_SubscribedExactly ==
    [][\A c \in DOMAIN client_tasks : \A plcs \in SubscriptionInputs :
          WsSubscribe(c, plcs) =>
             /\ ws_connected_clients'[client_tasks[c].id].subscribed_plcs = plcs
             /\ \A other \in ClientIds \ {client_tasks[c].id} :
                   ws_connected_clients'[other] = ws_connected_clients[other]
             /\ client_tasks'[c].responses =
                   Append(client_tasks[c].responses, SubscribeAck(plcs))]_vars

-----------------------------------------------------------------------------
(* Properties of the commands (SpecAdmin) *)

\* the step is a call of the command op
Called(op) == last_call' # last_call /\ last_call'.op = op

\* C27: a start for which no configured address can be bound fails and
\* leaves the server not running, with no acceptor, watchdog or harvester;
\* a start of a server that is running already fails and changes no state.
C27_FailedStartChangesNothing ==
    [][/\ (Called("start_tcp_server") /\ (is_running \/ ~last_call'.arg))
          => /\ last_call'.result = "Err"
             /\ UNCHANGED <<tcpVars, rd, cacheVars, wsVars, dbVars, callVars,
                            procVars, lockVars>>
             /\ ~is_running
                  => /\ ~is_running'
                     /\ acceptor' = NoAcceptor
                     /\ watchdog' = NoWatchdog
       /\ (Called("start_websocket_server")
             /\ (ws_is_running \/ last_call'.arg = {}))
          => /\ last_call'.result = "Err"
             /\ UNCHANGED <<tcpVars, rd, cacheVars, wsVars, dbVars, callVars,
                            procVars, lockVars>>
             /\ ~ws_is_running
                  => /\ ~ws_is_running'
                     /\ \A a \in Listeners : server_tasks'[a] = NoServerTask
                     /\ ws_harvesters' = {}
                     /\ consumers' = <<>>]_vars

\* a start of the TCP server has failed at bind and left no running server
C27_BindFailureLeftServerStopped ==
    /\ last_call = [op |-> "start_tcp_server", arg |-> FALSE, result |-> "Err"]
    /\ ~is_running
    /\ acceptor = NoAcceptor
    /\ watchdog = NoWatchdog
    /\ server_state = "new"

\* C29: allow_reconnect(ip) changes only the blacklist: it removes ip and
\* returns success, or returns an error and changes nothing when ip was not
\* blacklisted; it creates no connection and leaves the handle map, the
\* health map, the counters and the identity-to-id map as they were.
C29_OnlyBlacklistChanges ==
    [][Called("allow_plc_reconnect")
       => LET ip == last_call'.arg
          IN /\ IF ip \in blacklisted_ips
                THEN /\ last_call'.result = "Ok"
                     /\ blacklisted_ips' = blacklisted_ips \ {ip}
                ELSE /\ last_call'.result = "Err"
                     /\ blacklisted_ips' = blacklisted_ips
             /\ UNCHANGED <<is_running, active_connections, connected_clients,
                            connection_handles, unique_plcs, ip_to_id,
                            connection_health, next_id, acceptor, watchdog,
                            tasks, admin, first_id, server_state>>
             /\ UNCHANGED <<rd, cacheVars, wsVars, dbVars, callVars,
                            procVars, lockVars>>]_vars

\* A2 was taken off the blacklist while the connection of A1 was open: A1
\* is still connected and counted, A2 has no connection
C29_ReconnectAllowed ==
    /\ last_call = [op |-> "allow_plc_reconnect", arg |-> "A2",
                    result |-> "Ok"]
    /\ blacklisted_ips = {}
    /\ active_connections = 1
    /\ connection_handles = [ip \in IPs |-> IF ip = "A1" THEN 1 ELSE 0]
    /\ connected_clients = <<"A1">>

-----------------------------------------------------------------------------
(* Properties of the cache processor (SpecProcessor) *)

\* C26: after any sequence of cache updates the tag cache holds at most
\* cache_size_limit plus 20% entries (2400).
C26_CacheWithinLimit ==
    processor.pc # "off"
    => CacheSize(tag_cache) <= cache_size_limit + cache_size_limit \div 5

\* the entry of the tag of a PLC holds the value v
Holds(cache, k, tag, v) ==
    /\ cache[TagKey(Plc(k), tag.tag_name)].present
    /\ cache[TagKey(Plc(k), tag.tag_name)].value = v

\* C28: when the Schema Store fails during the refresh of the tag
\* definitions of a PLC, the list cached for that PLC stays as it was and
\* the update that follows is made with it.
C28_RefreshFailureKeepsTags ==
    [][(/\ processor'.packets_processed = processor.packets_processed + 1
        /\ processor'.refresh = "failed"
        /\ tag_mappings_cache[processor'.plc].present)
       => LET k == processor'.plc
              tags == tag_mappings_cache[k].tags
          IN /\ tag_mappings_cache'[k] = tag_mappings_cache[k]
             /\ \A j \in DOMAIN tags :
                    Holds(tag_cache', k, tags[j], processor'.value)]_vars

\* a refresh has failed after a row of the PLC was deleted: the list of
\* before is still cached and the last frame's value is in the entry of the
\* deleted row's tag
C28_StaleListStillUsed ==
    /\ processor.pc = "recv"
    /\ processor.refresh = "failed"
    /\ tag_mappings_cache[processor.plc].present
    /\ Len(tag_mappings_cache[processor.plc].tags)
         > Len(tag_db.rows[processor.plc])
    /\ processor.value = "7"
    /\ \A j \in DOMAIN tag_mappings_cache[processor.plc].tags :
           Holds(tag_cache, processor.plc,
                 tag_mappings_cache[processor.plc].tags[j], "7")

-----------------------------------------------------------------------------
(* Properties of the parser (SpecParser) *)

\* elements of the blocks before block b
RECURSIVE ElementsBefore(_, _)
ElementsBefore(blocks, b) ==
    IF b <= 1 THEN 0
    ELSE ElementsBefore(blocks, b - 1) + blocks[b - 1].count

\* summed sizes of the elements of the blocks before block b
RECURSIVE BytesBefore(_, _)
BytesBefore(blocks, b) ==
    IF b <= 1 THEN 0
    ELSE BytesBefore(blocks, b - 1)
         + blocks[b - 1].count * TypeSize(blocks[b - 1].data_type)

\* the block the k-th element of the schema belongs to
BlockOf(blocks, k) ==
    CHOOSE b \in 1..Len(blocks) :
        /\ ElementsBefore(blocks, b) < k
        /\ k <= ElementsBefore(blocks, b) + blocks[b].count

\* the text of the value the bytes hold, first byte most significant
BigEndianText(data_type, bytes) ==
    CASE data_type \in {"BYTE", "WORD", "DWORD", "LWORD"} -> UnsignedText(bytes)
      [] data_type \in {"INT", "DINT", "LINT"} -> SignedText(bytes)
      [] data_type = "REAL" -> RealText(bytes)
      [] data_type = "LREAL" -> LRealText(bytes)

\* for each block in schema order, count variables <block_name>[i], each
\* decoded from the offset that is the summed sizes of all elements before
\* it: the first n of them
ExpectedPrefix(blocks, raw, n) ==
    [k \in 1..n |->
        LET b == BlockOf(blocks, k)
            i == k - 1 - ElementsBefore(blocks, b)
            size == TypeSize(blocks[b].data_type)
            o == BytesBefore(blocks, b) + i * size
        IN [name |-> blocks[b].name \o "[" \o ToString(i) \o "]",
            value |-> BigEndianText(blocks[b].data_type,
                                    SubSeq(raw, o + 1, o + size)),
            data_type |-> blocks[b].data_type]]

ExpectedVariables(blocks, raw) ==
    ExpectedPrefix(blocks, raw, ElementsBefore(blocks, Len(blocks) + 1))

\* the offset just past the k-th element of the schema
ElementEnd(blocks, k) ==
    LET b == BlockOf(blocks, k)
    IN BytesBefore(blocks, b)
       + (k - ElementsBefore(blocks, b)) * TypeSize(blocks[b].data_type)

\* the elements of the schema, counted from the first, that lie fully within
\* len bytes
FittingElements(blocks, len) ==
    Cardinality({k \in 1..ElementsBefore(blocks, Len(blocks) + 1) :
                    ElementEnd(blocks, k) <= len})

\* C20: for a schema of blocks of the nine types and a payload of exactly the
\* schema's total size, parse_with_config returns, block after block in
\* schema order, count variables named <block_name>[i], i = 0..count-1, each
\* decoded big-endian from the offset equal to the summed sizes of all
\* elements before it.
C20_ParsedInSchemaOrder ==
    (/\ parse_call.pc = "returned"
     /\ \A b \in DOMAIN parse_call.blocks :
            parse_call.blocks[b].data_type \in DataTypes
     /\ Len(parse_call.raw_data) = TotalSize(parse_call.blocks))
    => parse_call.variables
         = ExpectedVariables(parse_call.blocks, parse_call.raw_data)

\* WORD x2, REAL x1 over 00 05 00 0A 3F 80 00 00 gave W[0]=5, W[1]=10,
\* R[0]=1.000000
C20_ExampleParsed ==
    /\ parse_call.pc = "returned"
    /\ parse_call.blocks = <<[data_type |-> "WORD", count |-> 2, name |-> "W"],
                             [data_type |-> "REAL", count |-> 1, name |-> "R"]>>
    /\ parse_call.raw_data = <<0, 5, 0, 10, 63, 128, 0, 0>>
    /\ parse_call.variables
         = <<[name |-> "W[0]", value |-> "5", data_type |-> "WORD"],
             [name |-> "W[1]", value |-> "10", data_type |-> "WORD"],
             [name |-> "R[0]", value |-> "1.000000", data_type |-> "REAL"]>>

\* C21: when the payload is shorter than the schema, parse_with_config
\* returns exactly the variables of the elements that fully fit, in schema
\* order, and none of any element after the first that does not fit.
C21_StopsAtFirstMisfit ==
    (/\ parse_call.pc = "returned"
     /\ Len(parse_call.raw_data) < TotalSize(parse_call.blocks))
    => parse_call.variables
         = ExpectedPrefix(parse_call.blocks, parse_call.raw_data,
                          FittingElements(parse_call.blocks,
                                          Len(parse_call.raw_data)))

-----------------------------------------------------------------------------
(* Properties of one cache update (SpecUpdateCall) *)

\* bit number bit of the unsigned integer whose big-endian bytes are given
BitOfBytes(bytes, bit) ==
    IF bit >= 8 * Len(bytes) THEN 0
    ELSE (bytes[Len(bytes) - bit \div 8] \div Pow2(bit % 8)) % 2

\* C22: for a tag whose variable_path is <base>.<bit>, bit in 0..63, not
\* starting with DB, and whose base variable holds an unsigned integer v, the
\* cached value is "TRUE" if bit number bit of v is 1 and "FALSE" otherwise,
\* and the cached data type is BOOL.
C22_BitOfUnsigned ==
    (/\ update_call.pc = "returned"
     /\ update_call.variables[1].data_type
            \in {"BYTE", "WORD", "DWORD", "LWORD"})
    => LET bit == ParseUnsigned(update_call.tag.variable_path[2], 255)
       IN /\ update_call.entry.present
          /\ update_call.entry.data_type = "BOOL"
          /\ update_call.entry.value
                = IF BitOfBytes(update_call.raw, bit) = 1 THEN "TRUE"
                  ELSE "FALSE"

\* bit 63 of an LWORD with the top bit set was cached as TRUE
C22_TopBitOfLword ==
    /\ update_call.pc = "returned"
    /\ update_call.variables[1].data_type = "LWORD"
    /\ update_call.raw = <<128, 0, 0, 0, 0, 0, 0, 0>>
    /\ update_call.tag.variable_path = <<"W[0]", "63">>
    /\ update_call.entry.value = "TRUE"

=============================================================================
